---------------------------- MODULE Spec2Model ----------------------------
(***************************************************************************)
(* Provider-tasking service of airport-platform: the task store, the       *)
(* deduplicating create_task and the status state machine set_status       *)
(* (services/provider-tasking/app/service.py), with the request schema of  *)
(* app/schemas.py and the rows of app/models.py.                           *)
(***************************************************************************)
EXTENDS Integers, Sequences, FiniteSets, TLC

(***************************************************************************)
(* JSON-like values.  Every value is a node [t, s, items]:                 *)
(*   t = "absent"    the field is not in the request body                  *)
(*   t = "null"      JSON null / Python None                               *)
(*   t = "str"       a string, number or boolean scalar, written s         *)
(*   t = "datetime"  a Python datetime, s its ISO text                     *)
(*   t = "obj"       a dict, items its entries in insertion order          *)
(*   t = "kv"        one dict entry: key s, value items[1]                 *)
(*   t = "arr"       a list, items its elements                            *)
(*   t = "model"     a pydantic model of class s, items its fields in      *)
(*                   declaration order (as "kv" nodes)                     *)
(***************************************************************************)
JAbsent == [t |-> "absent", s |-> "", items |-> <<>>]

JNull == [t |-> "null", s |-> "", items |-> <<>>]

JStr(x) == [t |-> "str", s |-> x, items |-> <<>>]

JDateTime(x) == [t |-> "datetime", s |-> x, items |-> <<>>]

JKV(k, v) == [t |-> "kv", s |-> k, items |-> <<v>>]

JObj(kvs) == [t |-> "obj", s |-> "", items |-> kvs]

JArr(xs) == [t |-> "arr", s |-> "", items |-> xs]

JModel(cls, kvs) == [t |-> "model", s |-> cls, items |-> kvs]

\* Python string order on the keys that occur (json.dumps sort_keys sorts by it).
KeyRank ==
    [a |-> 1, b |-> 2, done |-> 3, gate |-> 4, iata |-> 5, key |-> 6,
     required |-> 7, std |-> 8, terminal |-> 9, title |-> 10, x |-> 11,
     y |-> 12, zone |-> 13]

\* Python truthiness of a value: None, "", [] and {} are falsy.
Falsy(v) ==
    \/ v.t = "null"
    \/ v.t \in {"arr", "obj"} /\ v.items = <<>>
    \/ v.t = "str" /\ v.s = ""

\* An `or` that never takes the default.
PyOr_keep(v, default) == v

\* Python's `value or default`.
PyOr(v, default) == IF Falsy(v) THEN default ELSE v

\* dict lookup with a default: the last entry with the key wins.
RECURSIVE DictGet(_, _, _)
DictGet(kvs, k, default) ==
    IF kvs = <<>> THEN default
    ELSE LET n == Len(kvs) IN
         IF kvs[n].s = k THEN kvs[n].items[1]
         ELSE DictGet(SubSeq(kvs, 1, n - 1), k, default)

(***************************************************************************)
(* schemas.py: validation of a POST /tasks body into TaskCreate.           *)
(***************************************************************************)
\* An omitted field kept apart from an explicit null.
OptionalField_unset(raw) == raw

\* Optional[...] = None: an omitted field takes the default None.
OptionalField(raw) == IF raw.t = "absent" THEN JNull ELSE raw

Location(raw) ==
    JModel("Location",
           <<JKV("terminal", DictGet(raw.items, "terminal", JNull)),
             JKV("zone", DictGet(raw.items, "zone", JNull)),
             JKV("gate", DictGet(raw.items, "gate", JNull))>>)

Flight(raw) ==
    LET std == DictGet(raw.items, "std", JNull) IN
    JModel("Flight",
           <<JKV("iata", DictGet(raw.items, "iata", JNull)),
             JKV("std", IF std.t = "str" THEN JDateTime(std.s) ELSE std)>>)

ChecklistItem(raw) ==
    JModel("ChecklistItem",
           <<JKV("key", DictGet(raw.items, "key", JNull)),
             JKV("title", DictGet(raw.items, "title", JNull)),
             JKV("required", DictGet(raw.items, "required", JStr("true"))),
             JKV("done", DictGet(raw.items, "done", JStr("false")))>>)

TaskCreate(body) ==
    LET loc == OptionalField(body.location)
        flt == OptionalField(body.flight)
        chk == OptionalField(body.checklist)
        sla == OptionalField(body.sla_due_at)
    IN  [order_item_id |-> body.order_item_id,
         service_type |-> body.service_type,
         provider_id |-> OptionalField(body.provider_id),
         location |-> IF loc.t = "null" THEN JNull ELSE Location(loc),
         flight |-> IF flt.t = "null" THEN JNull ELSE Flight(flt),
         customer_hint |-> OptionalField(body.customer_hint),
         checklist |-> IF chk.t = "null" THEN JNull
                       ELSE JArr([i \in DOMAIN chk.items |->
                                     ChecklistItem(chk.items[i])]),
         sla_due_at |-> IF sla.t = "str" THEN JDateTime(sla.s) ELSE sla]

(***************************************************************************)
(* service.py: helpers.                                                    *)
(***************************************************************************)
\* pydantic_encoder, applied by json.dumps to what it cannot serialize: a
\* model becomes the dict of its fields, a datetime its ISO string.
RECURSIVE pydantic_encoder(_)
pydantic_encoder(v) ==
    CASE v.t = "model" ->
           JObj([i \in DOMAIN v.items |->
                   JKV(v.items[i].s, pydantic_encoder(v.items[i].items[1]))])
      [] v.t = "obj" ->
           JObj([i \in DOMAIN v.items |->
                   JKV(v.items[i].s, pydantic_encoder(v.items[i].items[1]))])
      [] v.t = "arr" ->
           JArr([i \in DOMAIN v.items |-> pydantic_encoder(v.items[i])])
      [] v.t = "datetime" -> JStr(v.s)
      [] OTHER -> v

\* _jsonable: None and scalars as they are, anything else through
\* json.loads(json.dumps(value, default=pydantic_encoder)).
_jsonable(value) ==
    IF value.t = "null" THEN JNull
    ELSE IF value.t = "str" THEN value
    ELSE pydantic_encoder(value)

\* Insertion of one dict entry into entries already sorted by key.
RECURSIVE InsertByKey(_, _)
InsertByKey(kv, sorted) ==
    IF sorted = <<>> THEN <<kv>>
    ELSE IF KeyRank[kv.s] < KeyRank[Head(sorted).s] THEN <<kv>> \o sorted
    ELSE <<Head(sorted)>> \o InsertByKey(kv, Tail(sorted))

RECURSIVE SortKeys(_)
SortKeys(kvs) ==
    IF kvs = <<>> THEN <<>>
    ELSE InsertByKey(Head(kvs), SortKeys(Tail(kvs)))

\* json.dumps(value, default=pydantic_encoder, sort_keys=True).  The text it
\* returns is written as the tree that text spells out: dict entries sorted
\* by key at every depth, list elements in their order.
RECURSIVE sort_keys(_)
sort_keys(v) ==
    CASE v.t = "obj" ->
           JObj(SortKeys([i \in DOMAIN v.items |->
                   JKV(v.items[i].s, sort_keys(v.items[i].items[1]))]))
      [] v.t = "arr" ->
           JArr([i \in DOMAIN v.items |-> sort_keys(v.items[i])])
      [] OTHER -> v

\* json.dumps without sort_keys: dict entries in insertion order.
json_dumps_unsorted(value) == pydantic_encoder(value)

json_dumps_sorted(value) == sort_keys(pydantic_encoder(value))

\* _payload_signature._dump
_dump(value) ==
    IF value.t = "null" THEN JNull ELSE json_dumps_sorted(value)

\* A signature that compares the checklist as the set of its items.
_payload_signature_unordered(provider_id, location, flight, customer_hint, checklist, sla_due_at) ==
    LET c == PyOr(checklist, JArr(<<>>)) IN
    <<provider_id, _dump(location), _dump(flight), _dump(customer_hint),
      {_dump(c.items[k]) : k \in DOMAIN c.items}, sla_due_at>>

_payload_signature(provider_id, location, flight, customer_hint, checklist, sla_due_at) ==
    <<provider_id, _dump(location), _dump(flight), _dump(customer_hint),
      _dump(PyOr(checklist, JArr(<<>>))), sla_due_at>>

(***************************************************************************)
(* models.py: the rows, and the committed database.                        *)
(***************************************************************************)
TaskStatus == {"new", "assigned", "in_progress", "done", "failed", "cancelled"}

VARIABLES
    tasks,   \* table tasks: committed Task rows, tasks[i].id = i
    events,  \* table task_events: committed TaskEvent rows, events[i].id = i
    clock,   \* the database's now(), one tick per committed transaction
    last,    \* the call that ran last: its arguments and its outcome
    created_from, \* history: created_from[i] is the request body whose
                  \* create_task call inserted tasks[i]
    status_log,   \* history: status_log[i] is the sequence of statuses
                  \* tasks[i] has held, oldest first
    sessions,     \* the database sessions of the requests in flight:
                  \* where each is in its handler, and what it has read
    reply,        \* the HTTP request served last: its query and what its
                  \* handler ended with
    flights,      \* flight-catalog, table flights: the rows, by flight_id
    flight_events, \* flight-catalog, table flight_events, in insertion order
    flight_clock, \* flight-catalog: datetime.now(timezone.utc)
    upserted,     \* flight-catalog: the upsert_flight call that ran last
    booking_index, \* booking-lookup: MOCK_REPOSITORY._index, as its entries
                  \* <<key, record>> in insertion order
    lookup_log    \* booking-lookup: the requests served and their responses

\* The state of the services other than provider-tasking.
other_vars ==
    <<flights, flight_events, flight_clock, upserted, booking_index,
      lookup_log>>

vars ==
    <<tasks, events, clock, last, created_from, status_log, sessions, reply,
      other_vars>>

\* Task(...) as INSERTed: id from uuid4 (fresh), status from the column
\* default, created_at and updated_at from server_default now().
Task(id, order_item_id, service_type, provider_id, location, flight, customer_hint, checklist, sla_due_at, now) ==
    [id |-> id,
     order_item_id |-> order_item_id,
     service_type |-> service_type,
     provider_id |-> provider_id,
     location |-> location,
     flight |-> flight,
     customer_hint |-> customer_hint,
     status |-> "new",
     checklist |-> checklist,
     sla_due_at |-> sla_due_at,
     created_at |-> now,
     updated_at |-> now]

\* TaskEvent(...) as INSERTed: autoincrement id, ts from server_default now().
TaskEvent(id, task_id, code, payload, now) ==
    [id |-> id, task_id |-> task_id, code |-> code, payload |-> payload,
     ts |-> now]

(***************************************************************************)
(* service.py: the state machine.                                          *)
(***************************************************************************)
\* An allow-list that lets a new task be closed at once.
ALLOWED_TRANSITIONS_skip ==
    [new |-> {"assigned", "failed", "done"},
     assigned |-> {"in_progress", "failed"},
     in_progress |-> {"done", "failed"},
     done |-> {},
     failed |-> {}]

\* An allow-list that lets work start on a task nobody has accepted.
ALLOWED_TRANSITIONS_unaccepted ==
    [new |-> {"assigned", "in_progress", "failed"},
     assigned |-> {"in_progress", "failed"},
     in_progress |-> {"done", "failed"},
     done |-> {},
     failed |-> {}]

\* An allow-list that lets a finished task be worked on again.
ALLOWED_TRANSITIONS_reopen ==
    [new |-> {"assigned", "failed"},
     assigned |-> {"in_progress", "failed"},
     in_progress |-> {"done", "failed"},
     done |-> {"in_progress"},
     failed |-> {}]

\* An allow-list that lets a failed task be taken up again.
ALLOWED_TRANSITIONS_retry ==
    [new |-> {"assigned", "failed"},
     assigned |-> {"in_progress", "failed"},
     in_progress |-> {"done", "failed"},
     done |-> {},
     failed |-> {"new"}]

ALLOWED_TRANSITIONS ==
    [new |-> {"assigned", "failed"},
     assigned |-> {"in_progress", "failed"},
     in_progress |-> {"done", "failed"},
     done |-> {},
     failed |-> {}]

\* ALLOWED_TRANSITIONS.get(status, set())
allowed_next(status) ==
    IF status \in DOMAIN ALLOWED_TRANSITIONS
    THEN ALLOWED_TRANSITIONS[status] ELSE {}

\* What a call left behind for its caller.
NoBody == [order_item_id |-> "", service_type |-> "", provider_id |-> JAbsent,
           location |-> JAbsent, flight |-> JAbsent, customer_hint |-> JAbsent,
           checklist |-> JAbsent, sla_due_at |-> JAbsent]

NoCall ==
    [op |-> "none", body |-> NoBody, task_id |-> 0, new_status |-> "",
     event |-> "", payload |-> JNull, outcome |-> "none", ret |-> 0,
     exc_current |-> "", exc_new |-> ""]

\* The signature of a stored row, as create_task computes it in its loop.
existing_signature(existing_task) ==
    _payload_signature(existing_task.provider_id, existing_task.location,
                       existing_task.flight, existing_task.customer_hint,
                       PyOr(existing_task.checklist, JArr(<<>>)),
                       existing_task.sla_due_at)

\* The signature of an incoming request.
new_signature(data) ==
    _payload_signature(data.provider_id, _jsonable(data.location),
                       _jsonable(data.flight), _jsonable(data.customer_hint),
                       _jsonable(PyOr(data.checklist, JArr(<<>>))),
                       data.sla_due_at)

\* A candidate filter that compares the wrong columns.
duplicates_wrong_filter(data) ==
    {i \in DOMAIN tasks :
        /\ tasks[i].order_item_id = data.service_type
        /\ tasks[i].service_type = data.order_item_id
        /\ existing_signature(tasks[i]) = new_signature(data)}

\* A candidate filter that takes only tasks nobody has started on.
duplicates_only_new(data) ==
    {i \in DOMAIN tasks :
        /\ tasks[i].order_item_id = data.order_item_id
        /\ tasks[i].service_type = data.service_type
        /\ tasks[i].status = "new"
        /\ existing_signature(tasks[i]) = new_signature(data)}

\* The stored rows create_task returns instead of inserting: same
\* order_item_id and service_type, equal signature.
duplicates(data) ==
    {i \in DOMAIN tasks :
        /\ tasks[i].order_item_id = data.order_item_id
        /\ tasks[i].service_type = data.service_type
        /\ existing_signature(tasks[i]) = new_signature(data)}

\* The row create_task inserts for a request with no duplicate.
new_task(data, id, now) ==
    Task(id, data.order_item_id, data.service_type, data.provider_id,
         _jsonable(data.location), _jsonable(data.flight),
         _jsonable(data.customer_hint),
         _jsonable(PyOr(data.checklist, JArr(<<>>))), data.sla_due_at, now)

\* A creation event that carries an empty map instead of null.
created_event_empty_payload(id, task_id, now) ==
    TaskEvent(id, task_id, "CREATED", JObj(<<>>), now)

\* A creation event that references no task.
created_event_unlinked(id, task_id, now) ==
    TaskEvent(id, 0, "CREATED", JNull, now)

\* The event create_task logs for the row it inserts.
created_event(id, task_id, now) == TaskEvent(id, task_id, "CREATED", JNull, now)

\* create_task(db, data) for the validated body of a POST /tasks.  The
\* candidate query has no ORDER BY: when several stored rows match, the one
\* the loop meets first, and returns, is any of them.
create_task(body) ==
    LET data == TaskCreate(body)
        dup == duplicates(data)
        id == Len(tasks) + 1
        now == clock + 1
    IN  IF dup # {}
        THEN \E i \in dup :
                /\ last' = [NoCall EXCEPT !.op = "create_task", !.body = body,
                                          !.outcome = "ok", !.ret = i]
                /\ UNCHANGED <<tasks, events, clock, created_from>>
        ELSE /\ tasks' = Append(tasks, new_task(data, id, now))
             /\ created_from' = Append(created_from, body)
             /\ events' = Append(events, created_event(Len(events) + 1, id, now))
             /\ clock' = now
             /\ last' = [NoCall EXCEPT !.op = "create_task", !.body = body,
                                       !.outcome = "ok", !.ret = id]

\* The event set_status logs for an applied transition.
transition_event(id, task_id, event, payload, now) ==
    TaskEvent(id, task_id, event, _jsonable(payload), now)

\* A transition that stores the row under another id.
transitioned_rekeyed(task, new_status, now) ==
    [task EXCEPT !.id = 0, !.status = new_status, !.updated_at = now]

\* The row after an applied transition: status written, updated_at by onupdate.
transitioned(task, new_status, now) ==
    [task EXCEPT !.status = new_status, !.updated_at = now]

\* No early return for a repeated status.
is_noop_never(new_status, status) == FALSE

\* `if new_status == task.status: return task`
is_noop(new_status, status) == new_status = status

\* set_status(db, task_id, new_status, event, payload)
set_status(task_id, new_status, event, payload) ==
    LET call == [NoCall EXCEPT !.op = "set_status", !.task_id = task_id,
                               !.new_status = new_status, !.event = event,
                               !.payload = payload]
        now == clock + 1
    IN  IF task_id \notin DOMAIN tasks
        THEN /\ last' = [call EXCEPT !.outcome = "NoResultFound"]
             /\ UNCHANGED <<tasks, events, clock, created_from>>
        ELSE IF is_noop(new_status, tasks[task_id].status)
        THEN /\ last' = [call EXCEPT !.outcome = "ok", !.ret = task_id]
             /\ UNCHANGED <<tasks, events, clock, created_from>>
        ELSE IF new_status \notin allowed_next(tasks[task_id].status)
        THEN /\ last' = [call EXCEPT !.outcome = "InvalidStatusTransition",
                                     !.exc_current = tasks[task_id].status,
                                     !.exc_new = new_status]
             /\ UNCHANGED <<tasks, events, clock, created_from>>
        ELSE /\ created_from' = created_from
             /\ tasks' = [tasks EXCEPT
                            ![task_id] = transitioned(@, new_status, now)]
             /\ events' = Append(events,
                    transition_event(Len(events) + 1, task_id, event, payload, now))
             /\ clock' = now
             /\ last' = [call EXCEPT !.outcome = "ok", !.ret = task_id]

(***************************************************************************)
(* The calls made on the service.                                          *)
(***************************************************************************)
ItemA ==
    JObj(<<JKV("key", JStr("a")), JKV("title", JStr("Board")),
           JKV("required", JStr("true")), JKV("done", JStr("false"))>>)

ItemB == JObj(<<JKV("key", JStr("b")), JKV("title", JStr("Escort"))>>)

\* {order_item_id: "OI-1", service_type: "WCHR"} and nothing else.
BaseBody ==
    [order_item_id |-> "OI-1", service_type |-> "WCHR", provider_id |-> JAbsent,
     location |-> JAbsent, flight |-> JAbsent, customer_hint |-> JAbsent,
     checklist |-> JAbsent, sla_due_at |-> JAbsent]

LifecycleBodies ==
    {BaseBody, [BaseBody EXCEPT !.checklist = JArr(<<ItemA>>)]}

\* The (event code, payload) pairs the callers pass.
ScanPayload == JObj(<<JKV("qr_payload", JStr("QR-1"))>>)

EventInputs == {<<"ACCEPTED", JNull>>, <<"SCANNED", ScanPayload>>}

\* One database session per request (get_db), closed when the request ends.
Sessions == {"s1", "s2"}

NoSession ==
    [pc |-> "closed", op |-> "none", body |-> NoBody, task_id |-> 0,
     new_status |-> "", event |-> "", payload |-> JNull, now |-> 0,
     status |-> "", outcome |-> "none", ret |-> 0, event_id |-> 0,
     exc_current |-> "", exc_new |-> ""]

(***************************************************************************)
(* booking-lookup: main.py.  Strings are sequences of characters.          *)
(***************************************************************************)
Ticket1 == <<"5", "5", "5", "-", "1", "2", "3", "4", "5", "6", "7", "8", "9", "0">>

Pnr1 == <<"A", "B", "C", "1", "2", "3">>

\* The passenger names are written here in Latin letters.
Name1 == <<"I", "v", "a", "n", "o", "v", " ", "I", "v", "a", "n">>

Ticket2 == <<"5", "5", "5", "-", "9", "8", "7", "6", "5", "4", "3", "2", "1", "0">>

Pnr2 == <<"X", "Y", "Z", "7", "8", "9">>

Name2 == <<"P", "e", "t", "r", "o", "v", " ", "P", "e", "t", "r">>

\* The records MOCK_REPOSITORY is built from.
MOCK_RECORDS ==
    <<[ticket_number |-> Ticket1, pnr |-> Pnr1, passenger_name |-> Name1,
       flight |-> [iata |-> "SU123", std |-> "2025-09-17T10:00:00+00:00"],
       service_suggestions |-> <<"WCHR">>],
      [ticket_number |-> Ticket2, pnr |-> Pnr2, passenger_name |-> Name2,
       flight |-> [iata |-> "SU321", std |-> "2025-11-05T20:15:00+00:00"],
       service_suggestions |-> <<>>]>>

\* An index by ticket number only.
RECURSIVE BookingRepository_tickets_only(_)
BookingRepository_tickets_only(records) ==
    IF records = <<>> THEN <<>>
    ELSE LET n == Len(records) IN
         BookingRepository_tickets_only(SubSeq(records, 1, n - 1))
         \o <<<<records[n].ticket_number, records[n]>>>>

\* BookingRepository.__init__(records): each record is entered under its
\* ticket number and under its PNR.
RECURSIVE BookingRepository(_)
BookingRepository(records) ==
    IF records = <<>> THEN <<>>
    ELSE LET n == Len(records) IN
         BookingRepository(SubSeq(records, 1, n - 1))
         \o <<<<records[n].ticket_number, records[n]>>,
              <<records[n].pnr, records[n]>>>>

MOCK_REPOSITORY == BookingRepository(MOCK_RECORDS)

\* No record: None.
NoBooking ==
    [ticket_number |-> <<>>, pnr |-> <<>>, passenger_name |-> <<>>,
     flight |-> [iata |-> "", std |-> ""], service_suggestions |-> <<>>]

\* BookingRepository.get(identifier): the entry written last under the key.
RECURSIVE repository_get(_, _)
repository_get(index, identifier) ==
    IF index = <<>> THEN NoBooking
    ELSE LET n == Len(index) IN
         IF index[n][1] = identifier THEN index[n][2]
         ELSE repository_get(SubSeq(index, 1, n - 1), identifier)

\* str.strip(): leading and trailing spaces removed.
RECURSIVE strip(_)
strip(text) ==
    IF text = <<>> THEN <<>>
    ELSE IF text[1] = " " THEN strip(Tail(text))
    ELSE IF text[Len(text)] = " " THEN strip(SubSeq(text, 1, Len(text) - 1))
    ELSE text

\* str.split(" "), without the empty parts.
RECURSIVE parts_of(_, _)
parts_of(text, part) ==
    IF text = <<>> THEN (IF part = <<>> THEN <<>> ELSE <<part>>)
    ELSE IF text[1] = " "
         THEN (IF part = <<>> THEN <<>> ELSE <<part>>)
              \o parts_of(Tail(text), <<>>)
         ELSE parts_of(Tail(text), Append(part, text[1]))

\* " ".join(masked_parts)
RECURSIVE join(_)
join(masked_parts) ==
    IF masked_parts = <<>> THEN <<>>
    ELSE IF Len(masked_parts) = 1 THEN masked_parts[1]
    ELSE masked_parts[1] \o <<" ">> \o join(Tail(masked_parts))

\* mask_passenger_name(full_name)
mask_passenger_name(full_name) ==
    LET parts == parts_of(strip(full_name), <<>>) IN
    join([index \in DOMAIN parts |->
            IF index = 1
            THEN (IF Len(parts[index]) > 1
                  THEN <<parts[index][1], "*", "*", "*">>
                  ELSE <<parts[index][1]>>)
            ELSE <<parts[index][1], ".">>])

\* make_ticket_hash(ticket_number): the digest, kept as the text it is
\* taken of.
make_ticket_hash(ticket_number) == <<"sha256:">> \o ticket_number

\* make_passenger_id(ticket_number, passenger_name)
make_passenger_id(ticket_number, passenger_name) ==
    <<"pax_">> \o ticket_number \o <<"|">> \o passenger_name

\* make_flight_id(flight) of booking-lookup.
booking_flight_id(flight) == <<"flt_", flight.iata, "|", flight.std>>

\* ticket_number[-4:]
last4(ticket_number) ==
    IF Len(ticket_number) <= 4 THEN ticket_number
    ELSE SubSeq(ticket_number, Len(ticket_number) - 3, Len(ticket_number))

NoResponse ==
    [status_code |-> 0, detail |-> "", passenger_id |-> <<>>,
     passenger_masked |-> <<>>, ticket_hash |-> <<>>, ticket_last4 |-> <<>>,
     flight_id |-> <<>>, flight |-> [iata |-> "", std |-> ""],
     service_suggestions |-> <<>>]

\* lookup_booking(payload): the response, or the HTTPException raised.
lookup_booking(payload) ==
    LET identifier == strip(payload.ticket_or_pnr)
        booking == repository_get(booking_index, identifier)
    IN  IF booking = NoBooking
        THEN [NoResponse EXCEPT !.status_code = 404,
                                !.detail = "Booking not found"]
        ELSE [status_code |-> 200, detail |-> "",
              passenger_id |-> make_passenger_id(booking.ticket_number,
                                                 booking.passenger_name),
              passenger_masked |-> mask_passenger_name(booking.passenger_name),
              ticket_hash |-> make_ticket_hash(booking.ticket_number),
              ticket_last4 |-> last4(booking.ticket_number),
              flight_id |-> booking_flight_id(booking.flight),
              flight |-> [iata |-> booking.flight.iata,
                          std |-> booking.flight.std],
              service_suggestions |-> booking.service_suggestions]

\* The bodies of POST /lookup: the keys of both records, a PNR with spaces
\* around it, a PNR in lower case, and an identifier of no record.
LookupRequests ==
    {[ticket_or_pnr |-> x] :
        x \in {Ticket1, Pnr1, Ticket2, Pnr2, <<" ">> \o Pnr1 \o <<" ", " ">>,
               <<"a", "b", "c", "1", "2", "3">>, <<"u", "n", "k", "n", "o", "w", "n">>}}

\* No upsert_flight call yet.
NoUpsert ==
    [payload |-> [flight_id |-> JNull, iata |-> "", std |-> JNull,
                  sta |-> JNull, status |-> "", status_reason |-> JNull],
     flight_id |-> <<>>, event_type |-> "none"]

\* No exception.
NoExc == [name |-> "none", current |-> "", new |-> ""]

NoReply ==
    [result |-> "none", exception |-> "none", status_code |-> 0,
     detail |-> <<>>, cause |-> NoExc, ret |-> 0, statuses |-> <<>>,
     rows |-> <<>>]

Init ==
    /\ tasks = <<>>
    /\ events = <<>>
    /\ clock = 0
    /\ last = NoCall
    /\ created_from = <<>>
    /\ status_log = <<>>
    /\ sessions = [s \in Sessions |-> NoSession]
    /\ reply = NoReply
    /\ flights = <<>>
    /\ flight_events = <<>>
    /\ flight_clock = 0
    /\ upserted = NoUpsert
    /\ booking_index = MOCK_REPOSITORY
    /\ lookup_log = <<>>

\* status_log follows the committed rows: an inserted row starts its log,
\* a row whose status column changed extends it.
Observed ==
    status_log' =
        [i \in DOMAIN tasks' |->
            IF i \notin DOMAIN tasks THEN <<tasks'[i].status>>
            ELSE IF tasks'[i].status # tasks[i].status
                 THEN Append(status_log[i], tasks'[i].status)
                 ELSE status_log[i]]

\* A call that runs from its first statement to its commit with no other
\* request in flight.
Sequential == Observed /\ UNCHANGED <<sessions, other_vars>>

\* A call made on the service itself, with no HTTP handler around it.
ServiceCall == Sequential /\ reply' = NoReply

\* Calls are issued until the database clock reaches MaxClock.
MaxClock == 5

CreateTask ==
    /\ clock < MaxClock
    /\ \E body \in LifecycleBodies : create_task(body)
    /\ ServiceCall

SetStatus ==
    /\ clock < MaxClock
    /\ \E task_id \in 1..(Len(tasks) + 1), new_status \in TaskStatus,
       ev \in EventInputs :
        set_status(task_id, new_status, ev[1], ev[2])
    /\ ServiceCall

\* The elements of a list.
Range(seq) == {seq[k] : k \in DOMAIN seq}

\* ORDER BY created_at ASC.
RECURSIVE order_by_created_at_asc(_)
order_by_created_at_asc(ids) ==
    IF ids = {} THEN {<<>>}
    ELSE LET oldest == {i \in ids : \A j \in ids :
                            tasks[i].created_at <= tasks[j].created_at}
         IN  UNION {{<<i>> \o rest :
                        rest \in order_by_created_at_asc(ids \ {i})} :
                    i \in oldest}

\* ORDER BY created_at DESC: the orders the database may return the rows
\* in (rows of equal created_at come in any order).
RECURSIVE order_by_created_at_desc(_)
order_by_created_at_desc(ids) ==
    IF ids = {} THEN {<<>>}
    ELSE LET newest == {i \in ids : \A j \in ids :
                            tasks[j].created_at <= tasks[i].created_at}
         IN  UNION {{<<i>> \o rest :
                        rest \in order_by_created_at_desc(ids \ {i})} :
                    i \in newest}

\* A listing that returns the oldest task first.
list_tasks_oldest_first(statuses) ==
    order_by_created_at_asc(
        IF statuses # <<>>
        THEN {i \in DOMAIN tasks : tasks[i].status \in Range(statuses)}
        ELSE DOMAIN tasks)

\* list_tasks(db, statuses): the results the query may give, as the ids of
\* the rows returned.  None and the empty list both leave the filter out.
list_tasks(statuses) ==
    order_by_created_at_desc(
        IF statuses # <<>>
        THEN {i \in DOMAIN tasks : tasks[i].status \in Range(statuses)}
        ELSE DOMAIN tasks)

\* The status query parameters of GET /tasks.
StatusQueries ==
    {<<>>, <<"new">>, <<"done">>, <<"cancelled">>, <<"new", "assigned">>,
     <<"assigned", "failed">>, <<"failed", "failed">>}

\* GET /tasks
get_tasks ==
    \E status \in StatusQueries :
        \E rows \in list_tasks(status) :
            /\ last' = [NoCall EXCEPT !.op = "list_tasks", !.outcome = "ok"]
            /\ reply' = [NoReply EXCEPT !.result = "return",
                                        !.status_code = 200,
                                        !.statuses = status, !.rows = rows]
            /\ UNCHANGED <<tasks, events, clock, created_from>>
            /\ Sequential

Next == CreateTask \/ SetStatus \/ get_tasks

Spec == Init /\ [][Next]_vars

(***************************************************************************)
(* Ingestion: create_task over request bodies that vary every field the    *)
(* signature reads.                                                        *)
(***************************************************************************)
LocTG == JObj(<<JKV("terminal", JStr("T1")), JKV("gate", JStr("G1"))>>)

LocGT == JObj(<<JKV("gate", JStr("G1")), JKV("terminal", JStr("T1"))>>)

FlightSU ==
    JObj(<<JKV("iata", JStr("SU123")),
           JKV("std", JStr("2025-09-17T10:00:00+00:00"))>>)

\* {a: 1, b: {x: 1, y: 2}} and the same map with its keys in other orders.
HintAB ==
    JObj(<<JKV("a", JStr("1")),
           JKV("b", JObj(<<JKV("x", JStr("1")), JKV("y", JStr("2"))>>))>>)

HintBA ==
    JObj(<<JKV("b", JObj(<<JKV("y", JStr("2")), JKV("x", JStr("1"))>>)),
           JKV("a", JStr("1"))>>)

HintABInner ==
    JObj(<<JKV("a", JStr("1")),
           JKV("b", JObj(<<JKV("y", JStr("2")), JKV("x", JStr("1"))>>))>>)

\* {a: 1, b: {x: 2, y: 1}}: the values of x and y exchanged.
HintOther ==
    JObj(<<JKV("a", JStr("1")),
           JKV("b", JObj(<<JKV("x", JStr("2")), JKV("y", JStr("1"))>>))>>)

OptionalFields ==
    {"provider_id", "location", "flight", "customer_hint", "checklist",
     "sla_due_at"}

FieldValues ==
    [provider_id |-> {},
     location |-> {LocTG, LocGT},
     flight |-> {FlightSU},
     customer_hint |-> {HintAB, HintBA, HintABInner, HintOther},
     checklist |-> {JArr(<<>>), JArr(<<ItemA, ItemB>>), JArr(<<ItemB, ItemA>>)},
     sla_due_at |-> {}]

\* BaseBody, and BaseBody with one optional field given: as null, or with a
\* value.
IngestBodies ==
    {BaseBody}
    \cup {[BaseBody EXCEPT ![f] = JNull] : f \in OptionalFields}
    \cup UNION {{[BaseBody EXCEPT ![f] = v] : v \in FieldValues[f]} :
                  f \in OptionalFields}

\* The store is kept to MaxTasks rows: a request that would insert one more
\* is not issued.
MaxTasks == 2

IngestTask ==
    \E body \in IngestBodies :
        /\ create_task(body)
        /\ Len(tasks') <= MaxTasks
        /\ ServiceCall

NextIngest == IngestTask

SpecIngest == Init /\ [][NextIngest]_vars

(***************************************************************************)
(* Concurrent requests: each handler runs in its own session and           *)
(* transaction, and the handlers interleave at their database statements.  *)
(* now() is the start time of the transaction that evaluates it.           *)
(***************************************************************************)
\* A task id that no stored row has: a uuid4 the service never generated.
MissingId == 0

\* A plain SELECT: the row is read whoever holds it.
row_lock_free_unlocked(task_id) == TRUE

\* Where a session is while its transaction holds the row it selected FOR
\* UPDATE: from the SELECT until the commit, or, on the paths that do not
\* commit, until the session is closed.
LockHeld == {"locked", "returned", "raised"}

\* A lock on the whole table: the row is free when no row is held.
row_lock_free_table_lock(task_id) ==
    \A s \in Sessions : sessions[s].pc \notin LockHeld

\* SELECT ... FOR UPDATE waits while another transaction holds the row.
row_lock_free(task_id) ==
    \A s \in Sessions :
        ~(sessions[s].pc \in LockHeld /\ sessions[s].task_id = task_id)

\* A unique index over (order_item_id, service_type, signature).
unique_violation_on_signature(data) == duplicates(data) # {}

\* The INSERT INTO tasks fails on a constraint: the table has none but its
\* primary key, a fresh uuid4.
unique_violation(data) == FALSE

\* Requests are accepted until MaxRequests transactions have begun.
MaxRequests == 3

\* set_status, first statement: the session begins its transaction.
BeginSetStatus ==
    /\ clock < MaxRequests
    /\ \E s \in Sessions, task_id \in (DOMAIN tasks) \cup {MissingId},
          new_status \in TaskStatus, ev \in EventInputs :
        /\ sessions[s].pc = "closed"
        /\ sessions' = [sessions EXCEPT ![s] =
                [NoSession EXCEPT !.pc = "select", !.op = "set_status",
                                  !.task_id = task_id,
                                  !.new_status = new_status,
                                  !.event = ev[1], !.payload = ev[2],
                                  !.now = clock + 1]]
    /\ clock' = clock + 1
    /\ UNCHANGED <<tasks, events, last, created_from, status_log, reply, other_vars>>

\* set_status, `select(Task).where(Task.id == task_id).with_for_update()`
\* and scalar_one(): the row is read and locked, or NoResultFound ends the
\* request.
SelectForUpdate ==
    /\ \E s \in Sessions :
        /\ sessions[s].pc = "select"
        /\ IF sessions[s].task_id \notin DOMAIN tasks
           THEN sessions' = [sessions EXCEPT ![s].pc = "closed",
                                             ![s].outcome = "NoResultFound"]
           ELSE /\ row_lock_free(sessions[s].task_id)
                /\ sessions' = [sessions EXCEPT
                        ![s].pc = "locked",
                        ![s].status = tasks[sessions[s].task_id].status]
    /\ UNCHANGED <<tasks, events, clock, last, created_from, status_log, reply, other_vars>>

\* set_status, from the read row to the end of the request: early return,
\* InvalidStatusTransition, or the write, the event and the commit.  The
\* lock goes with the transaction.
CheckAndApply ==
    \E s \in Sessions :
        LET r == sessions[s] IN
        /\ r.pc = "locked"
        /\ IF is_noop(r.new_status, r.status)
           THEN /\ sessions' = [sessions EXCEPT ![s].pc = "closed",
                                                ![s].outcome = "ok",
                                                ![s].ret = r.task_id]
                /\ UNCHANGED <<tasks, events>>
           ELSE IF r.new_status \notin allowed_next(r.status)
           THEN /\ sessions' = [sessions EXCEPT
                        ![s].pc = "closed",
                        ![s].outcome = "InvalidStatusTransition",
                        ![s].exc_current = r.status,
                        ![s].exc_new = r.new_status]
                /\ UNCHANGED <<tasks, events>>
           ELSE /\ tasks' = [tasks EXCEPT ![r.task_id] =
                                transitioned(@, r.new_status, r.now)]
                /\ events' = Append(events,
                        transition_event(Len(events) + 1, r.task_id, r.event,
                                         r.payload, r.now))
                /\ sessions' = [sessions EXCEPT
                        ![s].pc = "closed", ![s].outcome = "ok",
                        ![s].ret = r.task_id,
                        ![s].event_id = Len(events) + 1]
        /\ Observed
        /\ UNCHANGED <<clock, last, created_from, reply, other_vars>>

\* create_task, first statement: the session begins its transaction.
BeginCreate ==
    /\ clock < MaxRequests
    /\ \E s \in Sessions, body \in LifecycleBodies :
        /\ sessions[s].pc = "closed"
        /\ sessions' = [sessions EXCEPT ![s] =
                [NoSession EXCEPT !.pc = "candidates", !.op = "create_task",
                                  !.body = body, !.now = clock + 1]]
    /\ clock' = clock + 1
    /\ UNCHANGED <<tasks, events, last, created_from, status_log, reply, other_vars>>

\* create_task, the candidate query and the loop over its rows: a stored
\* duplicate is returned, or the request goes on to insert.
SelectCandidates ==
    /\ \E s \in Sessions :
        LET dup == duplicates(TaskCreate(sessions[s].body)) IN
        /\ sessions[s].pc = "candidates"
        /\ IF dup # {}
           THEN \E i \in dup :
                    sessions' = [sessions EXCEPT ![s].pc = "closed",
                                                 ![s].outcome = "ok",
                                                 ![s].ret = i]
           ELSE sessions' = [sessions EXCEPT ![s].pc = "insert"]
    /\ UNCHANGED <<tasks, events, clock, last, created_from, status_log, reply, other_vars>>

\* create_task, db.add(task), flush, _log_event(CREATED) and the commit.
InsertAndCommit ==
    \E s \in Sessions :
        LET r == sessions[s]
            data == TaskCreate(r.body)
            id == Len(tasks) + 1
        IN
        /\ r.pc = "insert"
        /\ IF unique_violation(data)
           THEN /\ sessions' = [sessions EXCEPT
                        ![s].pc = "closed", ![s].outcome = "IntegrityError"]
                /\ UNCHANGED <<tasks, events, created_from>>
           ELSE /\ tasks' = Append(tasks, new_task(data, id, r.now))
                /\ created_from' = Append(created_from, r.body)
                /\ events' = Append(events,
                        created_event(Len(events) + 1, id, r.now))
                /\ sessions' = [sessions EXCEPT
                        ![s].pc = "closed", ![s].outcome = "ok",
                        ![s].ret = id, ![s].event_id = Len(events) + 1]
        /\ Observed
        /\ UNCHANGED <<clock, last, reply, other_vars>>

NextConc ==
    \/ BeginSetStatus
    \/ SelectForUpdate
    \/ CheckAndApply
    \/ BeginCreate
    \/ SelectCandidates
    \/ InsertAndCommit

SpecConc == Init /\ [][NextConc]_vars

(***************************************************************************)
(* The lifetime of a request's session: get_db opens it before the handler *)
(* runs and closes it after the handler has returned or raised.  A         *)
(* transaction that set_status left open ends, and gives up its row lock,  *)
(* when the session is closed.                                             *)
(***************************************************************************)
\* A close that leaves the transaction, and its locks, as they are.
close_keeps_transaction(session) == session

\* AsyncSession.close() at the exit of `async with SessionLocal()`: the open
\* transaction is rolled back, the connection goes back to the pool and
\* the session is gone.
close(session) == NoSession

\* set_status, from the read row to its return or raise.  The early return
\* and InvalidStatusTransition leave the transaction open; the applied
\* transition commits, which releases the lock (the refresh that follows
\* reads the row in a new transaction, without a lock).
ReturnOrRaise ==
    \E s \in Sessions :
        LET r == sessions[s] IN
        /\ r.pc = "locked"
        /\ IF is_noop(r.new_status, r.status)
           THEN /\ sessions' = [sessions EXCEPT ![s].pc = "returned",
                                                ![s].outcome = "ok",
                                                ![s].ret = r.task_id]
                /\ UNCHANGED <<tasks, events>>
           ELSE IF r.new_status \notin allowed_next(r.status)
           THEN /\ sessions' = [sessions EXCEPT
                        ![s].pc = "raised",
                        ![s].outcome = "InvalidStatusTransition",
                        ![s].exc_current = r.status,
                        ![s].exc_new = r.new_status]
                /\ UNCHANGED <<tasks, events>>
           ELSE /\ tasks' = [tasks EXCEPT ![r.task_id] =
                                transitioned(@, r.new_status, r.now)]
                /\ events' = Append(events,
                        transition_event(Len(events) + 1, r.task_id, r.event,
                                         r.payload, r.now))
                /\ sessions' = [sessions EXCEPT
                        ![s].pc = "committed", ![s].outcome = "ok",
                        ![s].ret = r.task_id,
                        ![s].event_id = Len(events) + 1]
        /\ Observed
        /\ UNCHANGED <<clock, last, created_from, reply, other_vars>>

\* get_db after the yield: the handler is done and the session is closed.
get_db_exit ==
    /\ \E s \in Sessions :
        /\ sessions[s].pc \in {"returned", "raised", "committed"}
        /\ sessions' = [sessions EXCEPT ![s] = close(@)]
    /\ UNCHANGED <<tasks, events, clock, last, created_from, status_log, reply, other_vars>>

\* The status changes the endpoints ask for: accept, start and scan, as
\* (new_status, event, payload).
StatusRequests ==
    {<<"assigned", "ACCEPTED", JNull>>,
     <<"in_progress", "STARTED", JNull>>,
     <<"in_progress", "SCANNED", ScanPayload>>}

\* POST /tasks/{task_id}/accept, /start or /scan arrives: get_db opens the
\* session and set_status begins its transaction.
BeginChangeStatus ==
    /\ clock < MaxRequests
    /\ \E s \in Sessions, task_id \in (DOMAIN tasks) \cup {MissingId},
          rq \in StatusRequests :
        /\ sessions[s].pc = "closed"
        /\ sessions' = [sessions EXCEPT ![s] =
                [NoSession EXCEPT !.pc = "select", !.op = "set_status",
                                  !.task_id = task_id, !.new_status = rq[1],
                                  !.event = rq[2], !.payload = rq[3],
                                  !.now = clock + 1]]
    /\ clock' = clock + 1
    /\ UNCHANGED <<tasks, events, last, created_from, status_log, reply, other_vars>>

\* POST /tasks, served at once: it takes no row lock and waits for none.
CreateAtOnce ==
    /\ clock < MaxRequests
    /\ \E body \in LifecycleBodies : create_task(body)
    /\ Observed
    /\ UNCHANGED <<sessions, reply, other_vars>>

NextFair ==
    \/ CreateAtOnce
    \/ BeginChangeStatus
    \/ SelectForUpdate
    \/ ReturnOrRaise
    \/ get_db_exit

\* A step that takes a status change in flight further.
Progress == SelectForUpdate \/ ReturnOrRaise \/ get_db_exit

\* The event loop runs every coroutine that can go on, and the database
\* answers every statement that does not wait for a lock: while some
\* status change in flight can take its next step, one of them does.  New
\* requests need not come.
SpecFair == Init /\ [][NextFair]_vars /\ WF_vars(Progress)

(***************************************************************************)
(* Status changes on several tasks at once: the tasks are created first or *)
(* in between, and the requests of accept, start and scan interleave.      *)
(***************************************************************************)
\* Status changes are accepted until MaxAttempts of them have begun.
MaxAttempts == 2

\* The transactions begun by status changes: every tick of the clock that
\* was not the insert of a task.
AttemptsBegun == clock - Len(tasks)

\* POST /tasks, served at once, while the store has room.
CreateRow ==
    /\ Len(tasks) < MaxTasks
    /\ \E body \in LifecycleBodies : create_task(body)
    /\ Observed
    /\ UNCHANGED <<sessions, reply, other_vars>>

\* POST /tasks/{task_id}/accept, /start or /scan arrives.
BeginAttempt ==
    /\ AttemptsBegun < MaxAttempts
    /\ \E s \in Sessions, task_id \in (DOMAIN tasks) \cup {MissingId},
          rq \in StatusRequests :
        /\ sessions[s].pc = "closed"
        /\ sessions' = [sessions EXCEPT ![s] =
                [NoSession EXCEPT !.pc = "select", !.op = "set_status",
                                  !.task_id = task_id, !.new_status = rq[1],
                                  !.event = rq[2], !.payload = rq[3],
                                  !.now = clock + 1]]
    /\ clock' = clock + 1
    /\ UNCHANGED <<tasks, events, last, created_from, status_log, reply, other_vars>>

NextRows ==
    \/ CreateRow
    \/ BeginAttempt
    \/ SelectForUpdate
    \/ ReturnOrRaise
    \/ get_db_exit

SpecRows == Init /\ [][NextRows]_vars

(***************************************************************************)
(* main.py: the HTTP handlers, each served in a session of its own with no *)
(* other request in flight.                                                *)
(***************************************************************************)
\* str(exc) for an InvalidStatusTransition.
str(exc) == <<"Cannot transition task from", exc.current, "to", exc.new>>

\* A handler that answers an invalid transition with 400 Bad Request.
_handle_transition_error_bad_request(exc) ==
    [NoReply EXCEPT !.result = "raise", !.exception = "HTTPException",
                    !.status_code = 400, !.detail = str(exc)]

\* _handle_transition_error(exc): HTTPException(409, detail=str(exc)).
_handle_transition_error(exc) ==
    [NoReply EXCEPT !.result = "raise", !.exception = "HTTPException",
                    !.status_code = 409, !.detail = str(exc)]

\* The exception a set_status call ended with, if any.
raised(call) ==
    IF call.outcome = "ok" THEN NoExc
    ELSE [name |-> call.outcome, current |-> call.exc_current,
          new |-> call.exc_new]

\* A handler that turns every exception of set_status into the 409.
_change_status_catch_all(task_id, new_status, event, payload) ==
    /\ set_status(task_id, new_status, event, payload)
    /\ reply' =
        IF last'.outcome = "ok"
        THEN [NoReply EXCEPT !.result = "return", !.status_code = 200,
                             !.ret = last'.ret]
        ELSE [_handle_transition_error(raised(last')) EXCEPT
                    !.cause = raised(last')]
    /\ Sequential

\* _change_status(db, task_id, new_status, event, payload): the task is
\* returned, InvalidStatusTransition becomes the 409 raised `from exc`, and
\* any other exception of set_status leaves the handler as it is.
_change_status(task_id, new_status, event, payload) ==
    /\ set_status(task_id, new_status, event, payload)
    /\ reply' =
        IF last'.outcome = "ok"
        THEN [NoReply EXCEPT !.result = "return", !.status_code = 200,
                             !.ret = last'.ret]
        ELSE IF last'.outcome = "InvalidStatusTransition"
        THEN [_handle_transition_error(raised(last')) EXCEPT
                    !.cause = raised(last')]
        ELSE [NoReply EXCEPT !.result = "raise",
                             !.exception = last'.outcome]
    /\ Sequential

\* _model_to_dict(payload) for a ScanPayload: model_dump(mode="json").
_model_to_dict(model) == IF model = JNull THEN JNull ELSE JObj(model.items)

\* The path parameter of a request: a stored task's id, or one of no row.
TaskIds == (DOMAIN tasks) \cup {MissingId}

\* POST /tasks
api_create_task ==
    \E body \in LifecycleBodies :
        /\ create_task(body)
        /\ reply' = [NoReply EXCEPT !.result = "return", !.status_code = 201,
                                    !.ret = last'.ret]
        /\ Sequential

\* POST /tasks/{task_id}/accept
accept_task ==
    \E task_id \in TaskIds :
        _change_status(task_id, "assigned", "ACCEPTED", JNull)

\* POST /tasks/{task_id}/start
start_task ==
    \E task_id \in TaskIds :
        _change_status(task_id, "in_progress", "STARTED", JNull)

\* A scan endpoint that completes the task.
scan_qr_completes ==
    \E task_id \in TaskIds :
        _change_status(task_id, "done", "SCANNED",
                       _model_to_dict(JModel("ScanPayload", ScanPayload.items)))

\* POST /tasks/{task_id}/scan
scan_qr ==
    \E task_id \in TaskIds :
        _change_status(task_id, "in_progress", "SCANNED",
                       _model_to_dict(JModel("ScanPayload", ScanPayload.items)))

NextApi ==
    api_create_task \/ accept_task \/ start_task \/ scan_qr \/ get_tasks

SpecApi == Init /\ [][NextApi]_vars

(***************************************************************************)
(* The endpoints together with a caller of the service that closes tasks:  *)
(* no endpoint moves a task to done or failed, set_status does when it is  *)
(* called with these targets.                                              *)
(***************************************************************************)
\* The (new_status, event) pairs of the closing caller; the event code is
\* the caller's to choose.
ClosingInputs == {<<"done", "DONE">>, <<"failed", "FAILED">>}

\* service.set_status called directly to close a task.
CloseTask ==
    /\ \E task_id \in DOMAIN tasks, c \in ClosingInputs :
        set_status(task_id, c[1], c[2], JNull)
    /\ ServiceCall

NextClosing ==
    api_create_task \/ accept_task \/ start_task \/ scan_qr \/ CloseTask

SpecClosing == Init /\ [][NextClosing]_vars

(***************************************************************************)
(* flight-catalog: models.py, schemas.py and service.py.                   *)
(***************************************************************************)
FlightStatus == {"SCHEDULED", "DELAYED", "CANCELLED", "DEPARTED", "LANDED"}

\* The datetimes of the requests, by ISO text, and the instant each denotes
\* (hours of 2025-12-24, UTC).
InstantOf ==
    [iso \in {"2025-12-24T18:00:00+00:00", "2025-12-24T21:00:00+03:00",
              "2025-12-24T19:00:00+00:00", "2025-12-24T20:00:00+00:00"} |->
        CASE iso = "2025-12-24T18:00:00+00:00" -> 18
          [] iso = "2025-12-24T21:00:00+03:00" -> 18
          [] iso = "2025-12-24T19:00:00+00:00" -> 19
          [] iso = "2025-12-24T20:00:00+00:00" -> 20]

\* The ISO text, in UTC, of an instant.
UtcIso(instant) ==
    CASE instant = 18 -> "2025-12-24T18:00:00+00:00"
      [] instant = 19 -> "2025-12-24T19:00:00+00:00"
      [] instant = 20 -> "2025-12-24T20:00:00+00:00"

\* A DateTime(timezone=True) column written and read back: the same instant,
\* in UTC.
timestamptz(dt) ==
    IF dt = JNull THEN JNull ELSE JDateTime(UtcIso(InstantOf[dt.s]))

\* A comparison of datetimes by what is written, zone and all.
py_ne_as_written(a, b) == a # b

\* Python's != on two values that are None, str or aware datetimes: aware
\* datetimes compare by instant.
py_ne(a, b) ==
    IF a.t = "datetime" /\ b.t = "datetime"
    THEN InstantOf[a.s] # InstantOf[b.s]
    ELSE a # b

\* datetime.isoformat()
isoformat(dt) == JStr(dt.s)

\* make_flight_id(iata, std): the digest of "iata|isoformat", kept as the
\* text it is taken of.
make_flight_id(iata, std) == <<"flt", iata, std.s>>

\* A flight id as a JSON string.
FlightIdJson(flight_id) == JArr([k \in DOMAIN flight_id |-> JStr(flight_id[k])])

\* _json_safe(value)
_json_safe(value) == IF value.t = "datetime" THEN isoformat(value) ELSE value

\* One entry of the change map.
Change(field, old_value, new_value) ==
    [changed |-> py_ne(old_value, new_value),
     kv |-> JKV(field, JObj(<<JKV("old", _json_safe(old_value)),
                              JKV("new", _json_safe(new_value))>>))]

\* _detect_changes(old, new_data): the changed tracked fields, in the
\* order of tracked_fields.
_detect_changes(old, new_data) ==
    LET entries ==
            <<Change("iata", JStr(old.iata), JStr(new_data.iata)),
              Change("std", old.std, new_data.std),
              Change("sta", old.sta, new_data.sta),
              Change("status", JStr(old.status), JStr(new_data.status)),
              Change("status_reason", old.status_reason,
                     new_data.status_reason)>>
        changed == SelectSeq(entries, LAMBDA e : e.changed)
    IN  [k \in DOMAIN changed |-> changed[k].kv]

\* An event type that reports every change to CANCELLED as a cancellation.
change_event_type_any_cancel(previous_status, status) ==
    IF status = "CANCELLED" THEN "flight.cancelled" ELSE "flight.updated"

\* The event type of a change to an existing flight.
change_event_type(previous_status, status) ==
    IF previous_status # "CANCELLED" /\ status = "CANCELLED"
    THEN "flight.cancelled" ELSE "flight.updated"

\* Flight(...) as stored.
FlightRow(flight_id, payload, now) ==
    [flight_id |-> flight_id, iata |-> payload.iata,
     std |-> timestamptz(payload.std), sta |-> timestamptz(payload.sta),
     status |-> payload.status, status_reason |-> payload.status_reason,
     last_updated_at |-> now]

FlightEvent(flight_id, event_type, event_payload, now) ==
    [flight_id |-> flight_id, event_type |-> event_type,
     payload |-> event_payload, created_at |-> now]

\* get_flight(db, flight_id): the positions of the row with this key.
get_flight(flight_id) ==
    {i \in DOMAIN flights : flights[i].flight_id = flight_id}

\* upsert_flight(db, payload)
upsert_flight(payload) ==
    LET flight_id == IF payload.flight_id # JNull
                     THEN [k \in DOMAIN payload.flight_id.items |->
                              payload.flight_id.items[k].s]
                     ELSE make_flight_id(payload.iata, payload.std)
        now == flight_clock + 1
        found == get_flight(flight_id)
        call == [payload |-> payload, flight_id |-> flight_id,
                 event_type |-> "None"]
    IN  /\ flight_clock' = now
        /\ IF found = {}
           THEN /\ flights' = Append(flights, FlightRow(flight_id, payload, now))
                /\ flight_events' = Append(flight_events,
                    FlightEvent(flight_id, "flight.created",
                        JObj(<<JKV("flight_id", FlightIdJson(flight_id)),
                               JKV("iata", JStr(payload.iata)),
                               JKV("std", isoformat(payload.std)),
                               JKV("sta", IF payload.sta # JNull
                                          THEN isoformat(payload.sta)
                                          ELSE JNull),
                               JKV("status", JStr(payload.status)),
                               JKV("status_reason", payload.status_reason)>>),
                        now))
                /\ upserted' = [call EXCEPT !.event_type = "flight.created"]
           ELSE \E i \in found :
                LET flight == flights[i]
                    changes == _detect_changes(flight, payload)
                    previous_status == flight.status
                    event_type == change_event_type(previous_status,
                                                    payload.status)
                IN  IF changes # <<>>
                    THEN /\ flights' = [flights EXCEPT
                                ![i] = FlightRow(flight_id, payload, now)]
                         /\ flight_events' = Append(flight_events,
                              FlightEvent(flight_id, event_type,
                                IF event_type = "flight.cancelled"
                                THEN JObj(<<JKV("flight_id",
                                                FlightIdJson(flight_id)),
                                            JKV("previous_status",
                                                JStr(previous_status)),
                                            JKV("status", JStr(payload.status)),
                                            JKV("status_reason",
                                                payload.status_reason)>>)
                                ELSE JObj(<<JKV("flight_id",
                                                FlightIdJson(flight_id)),
                                            JKV("changes", JObj(changes))>>),
                                now))
                         /\ upserted' = [call EXCEPT !.event_type = event_type]
                    ELSE /\ flights' = [flights EXCEPT
                                ![i].last_updated_at = now]
                         /\ flight_events' = flight_events
                         /\ upserted' = call

\* The bodies of POST /flights: one flight in every status, with and
\* without a reason, and the same flight with another arrival time, with
\* another departure time under its id, and with its departure time
\* written in another zone.
FlightBody(status, status_reason) ==
    [flight_id |-> JNull, iata |-> "SU777",
     std |-> JDateTime("2025-12-24T18:00:00+00:00"), sta |-> JNull,
     status |-> status, status_reason |-> status_reason]

FlightBodies ==
    LET base == FlightBody("SCHEDULED", JNull)
        id == FlightIdJson(make_flight_id(base.iata, base.std))
    IN  {FlightBody(st, r) : st \in FlightStatus,
                              r \in {JNull, JStr("WEATHER")}}
        \cup {[base EXCEPT !.sta = JDateTime("2025-12-24T20:00:00+00:00")],
              [base EXCEPT !.flight_id = id,
                           !.std = JDateTime("2025-12-24T19:00:00+00:00")],
              [base EXCEPT !.flight_id = id,
                           !.std = JDateTime("2025-12-24T21:00:00+03:00")],
              [base EXCEPT !.std = JDateTime("2025-12-24T21:00:00+03:00")]}

\* Requests are served until MaxUpserts of them have been.
MaxUpserts == 3

\* The state of provider-tasking.
tasking_vars ==
    <<tasks, events, clock, last, created_from, status_log, sessions, reply>>

\* POST /flights
create_or_update_flight ==
    /\ flight_clock < MaxUpserts
    /\ \E payload \in FlightBodies : upsert_flight(payload)
    /\ UNCHANGED <<tasking_vars, booking_index, lookup_log>>

NextCatalog == create_or_update_flight

SpecCatalog == Init /\ [][NextCatalog]_vars

(***************************************************************************)
(* booking-lookup: the requests served.                                    *)
(***************************************************************************)
\* Requests are served until MaxLookups of them have been.
MaxLookups == 3

\* POST /lookup
LookupBooking ==
    /\ Len(lookup_log) < MaxLookups
    /\ \E payload \in LookupRequests :
        lookup_log' = Append(lookup_log,
            [request |-> payload, response |-> lookup_booking(payload)])
    /\ UNCHANGED <<tasking_vars, flights, flight_events, flight_clock,
                   upserted, booking_index>>

NextLookup == LookupBooking

SpecLookup == Init /\ [][NextLookup]_vars

(***************************************************************************)
(* The claims.                                                             *)
(***************************************************************************)
\* The allow-list as the specification (section 4.1) and
\* tests/test_service.py state it.
AllowList ==
    [new |-> {"assigned", "failed", "cancelled"},
     assigned |-> {"in_progress", "failed", "cancelled"},
     in_progress |-> {"done", "failed", "cancelled"},
     done |-> {}, failed |-> {}, cancelled |-> {}]

TerminalStatuses == {"done", "failed", "cancelled"}

\* This step is a set_status call on stored task id.
SetStatusCall(id) == last'.op = "set_status" /\ last'.task_id = id

\* This step is a create_task call.
CreateCall == last'.op = "create_task"

EventsOf(evs, id) == SelectSeq(evs, LAMBDA e : e.task_id = id)

CreatedEventsOf(evs, id) ==
    SelectSeq(evs, LAMBDA e : e.task_id = id /\ e.code = "CREATED")

\* This step appended exactly one event, e, and changed no stored event.
AppendedOne(e) ==
    /\ Len(events') = Len(events) + 1
    /\ SubSeq(events', 1, Len(events)) = events
    /\ events'[Len(events')] = e

\* Two bodies equal in every field but f.
SameExcept(b1, b2, f) == \A g \in (DOMAIN b1) \ {f} : b1[g] = b2[g]

\* C1: for every (current, target) pair in the allow-list, set_status on a
\* task whose status is current succeeds, changes the stored status to
\* target, sets updated_at, and appends exactly one event carrying the
\* supplied event code and payload for that task.
C1_AllowedPairApplies ==
    [][\A id \in DOMAIN tasks :
          (SetStatusCall(id) /\ last'.new_status \in AllowList[tasks[id].status])
          => /\ last'.outcome = "ok"
             /\ tasks'[id] = [tasks[id] EXCEPT !.status = last'.new_status,
                                               !.updated_at = clock']
             /\ clock' > tasks[id].updated_at
             /\ \A other \in (DOMAIN tasks) \ {id} : tasks'[other] = tasks[other]
             /\ AppendedOne([id |-> Len(events) + 1, task_id |-> id,
                             code |-> last'.event, payload |-> last'.payload,
                             ts |-> clock'])]_vars

\* C2: a task can be transitioned into cancelled from each of new, assigned
\* and in_progress (no such request is rejected), and cancelled itself has
\* an empty set of allowed next statuses.
C2_CancelAllowed ==
    /\ allowed_next("cancelled") = {}
    /\ ~(/\ last.op = "set_status"
         /\ last.new_status = "cancelled"
         /\ last.outcome = "InvalidStatusTransition"
         /\ last.exc_current \in {"new", "assigned", "in_progress"})

\* C3: for every (current, target) pair with target different from current
\* and not in the allow-list, set_status fails with InvalidStatusTransition
\* carrying exactly (current, target); the stored rows (status, updated_at)
\* are unchanged and no event is appended.
C3_RejectedPairUnchanged ==
    [][\A id \in DOMAIN tasks :
          (/\ SetStatusCall(id)
           /\ last'.new_status # tasks[id].status
           /\ last'.new_status \notin AllowList[tasks[id].status])
          => /\ last'.outcome = "InvalidStatusTransition"
             /\ last'.exc_current = tasks[id].status
             /\ last'.exc_new = last'.new_status
             /\ tasks' = tasks
             /\ events' = events]_vars

\* A rejected attempt to move an assigned task straight to done.
C3_Witness ==
    /\ last.op = "set_status"
    /\ last.outcome = "InvalidStatusTransition"
    /\ last.exc_current = "assigned"
    /\ last.exc_new = "done"
    /\ last.task_id \in DOMAIN tasks
    /\ tasks[last.task_id].status = "assigned"

\* C4: for every status s (terminal ones included), set_status with target
\* equal to the task's current status succeeds as a no-op: status and
\* updated_at unchanged, no event appended.
C4_SelfTransitionNoop ==
    [][\A id \in DOMAIN tasks :
          (SetStatusCall(id) /\ last'.new_status = tasks[id].status)
          => /\ last'.outcome = "ok"
             /\ last'.ret = id
             /\ tasks' = tasks
             /\ events' = events]_vars

\* A successful call with the status a failed task already has, made after
\* the transaction that wrote that status (the row is older than the clock).
C4_Witness ==
    /\ last.op = "set_status"
    /\ last.outcome = "ok"
    /\ last.new_status = "failed"
    /\ last.task_id \in DOMAIN tasks
    /\ tasks[last.task_id].status = "failed"
    /\ tasks[last.task_id].updated_at < clock

\* C5: once a task's status is done, failed or cancelled, every attempt to
\* move it to a different status fails, its status never changes again and
\* no further event is appended for it.
C5_TerminalIsFinal ==
    [][/\ \A s \in TerminalStatuses : allowed_next(s) = {}
       /\ \A id \in DOMAIN tasks :
            tasks[id].status \in TerminalStatuses
            => /\ tasks'[id].status = tasks[id].status
               /\ EventsOf(events', id) = EventsOf(events, id)
               /\ (SetStatusCall(id) /\ last'.new_status # tasks[id].status)
                  => last'.outcome = "InvalidStatusTransition"]_vars

\* A rejected attempt to move a done task to failed.
C5_Witness ==
    /\ last.op = "set_status"
    /\ last.outcome = "InvalidStatusTransition"
    /\ last.exc_current = "done"
    /\ last.exc_new = "failed"
    /\ tasks[last.task_id].status = "done"
    /\ Len(EventsOf(events, last.task_id)) = 4

C7_InsertsTaskWithCreatedEvent ==
    [][/\ (CreateCall /\ duplicates(TaskCreate(last'.body)) = {})
          => /\ last'.outcome = "ok"
             /\ last'.ret = Len(tasks) + 1
             /\ Len(tasks') = Len(tasks) + 1
             /\ SubSeq(tasks', 1, Len(tasks)) = tasks
             /\ tasks'[Len(tasks')].id = last'.ret
             /\ tasks'[Len(tasks')].status = "new"
             /\ AppendedOne([id |-> Len(events) + 1, task_id |-> last'.ret,
                             code |-> "CREATED", payload |-> JNull,
                             ts |-> clock'])
       /\ \A i \in DOMAIN tasks' : Len(CreatedEventsOf(events', i)) = 1
       /\ \A e \in DOMAIN events' : events'[e].task_id \in DOMAIN tasks']_vars

\* The call just inserted task 2 beside a stored task 1 that shares its
\* order_item_id and service_type.
C7_Witness ==
    /\ last.op = "create_task"
    /\ last.ret = 2
    /\ Len(tasks) = 2
    /\ tasks[2].created_at = clock
    /\ tasks[1].order_item_id = tasks[2].order_item_id
    /\ tasks[1].service_type = tasks[2].service_type
    /\ tasks[1].status # "new"

\* One checklist is the other with the same items in a different order.
Reordered(c1, c2) ==
    /\ c1.t = "arr" /\ c2.t = "arr"
    /\ c1 # c2
    /\ Len(c1.items) = Len(c2.items)
    /\ \E p \in Permutations(DOMAIN c1.items) :
          \A k \in DOMAIN c1.items : c2.items[k] = c1.items[p[k]]

\* C8: two create requests identical except that the same checklist items
\* appear in a different order are not duplicates: the second does not return
\* the first's task but a task of its own, each with its own CREATED event.
C8_ChecklistOrderDistinguishes ==
    [][\A i \in DOMAIN tasks :
          (/\ CreateCall
           /\ SameExcept(created_from[i], last'.body, "checklist")
           /\ Reordered(created_from[i].checklist, last'.body.checklist))
          => /\ last'.outcome = "ok"
             /\ last'.ret # i
             /\ last'.ret \in DOMAIN tasks'
             /\ Len(CreatedEventsOf(events', i)) = 1
             /\ Len(CreatedEventsOf(events', last'.ret)) = 1]_vars

\* Two stored tasks whose creating bodies differ only in checklist order.
C8_Witness ==
    /\ Len(tasks) = 2
    /\ SameExcept(created_from[1], created_from[2], "checklist")
    /\ Reordered(created_from[1].checklist, created_from[2].checklist)
    /\ Len(CreatedEventsOf(events, 1)) = 1
    /\ Len(CreatedEventsOf(events, 2)) = 1

\* One body omits the optional field f, the other passes it as null, and
\* they agree on every other field.
NullForAbsent(b1, b2, f) ==
    /\ SameExcept(b1, b2, f)
    /\ {b1[f], b2[f]} = {JAbsent, JNull}

NullableFields ==
    {"provider_id", "location", "flight", "customer_hint", "sla_due_at"}

\* C9: for each optional field (provider_id, location, flight,
\* customer_hint, sla_due_at), a request that omits the field and an
\* otherwise-identical one that passes null have the same signature, and the
\* second returns the first's task.
C9_NullEqualsAbsent ==
    [][\A i \in DOMAIN tasks : \A f \in NullableFields :
          (CreateCall /\ NullForAbsent(created_from[i], last'.body, f))
          => /\ new_signature(TaskCreate(created_from[i]))
                  = new_signature(TaskCreate(last'.body))
             /\ last'.outcome = "ok"
             /\ last'.ret = i
             /\ tasks' = tasks
             /\ events' = events]_vars

\* Task 1 was created without a location, and a request with location null
\* has just returned it.
C9_Witness ==
    /\ last.op = "create_task"
    /\ Len(tasks) >= 1
    /\ last.ret = 1
    /\ created_from[1].location = JAbsent
    /\ last.body.location = JNull
    /\ NullForAbsent(created_from[1], last.body, "location")

\* Equality of JSON values as Python compares them: dicts are equal when
\* they hold the same keys with equal values, whatever the key order.
RECURSIVE SameJson(_, _)
SameJson(v1, v2) ==
    IF v1.t = "obj" /\ v2.t = "obj"
    THEN /\ Len(v1.items) = Len(v2.items)
         /\ {v1.items[k].s : k \in DOMAIN v1.items}
              = {v2.items[k].s : k \in DOMAIN v2.items}
         /\ \A k \in DOMAIN v1.items :
              SameJson(v1.items[k].items[1],
                       DictGet(v2.items, v1.items[k].s, JAbsent))
    ELSE IF v1.t = "arr" /\ v2.t = "arr"
    THEN /\ Len(v1.items) = Len(v2.items)
         /\ \A k \in DOMAIN v1.items : SameJson(v1.items[k], v2.items[k])
    ELSE v1 = v2

\* The bodies differ, and only in the key order of the maps in field f.
KeyOrderVariant(b1, b2, f) ==
    /\ SameExcept(b1, b2, f)
    /\ b1[f] # b2[f]
    /\ b1[f].t = "obj"
    /\ SameJson(b1[f], b2[f])

\* C10: two create requests whose customer_hint (or location) hold the same
\* keys and values in a different key order, at any nesting depth, have equal
\* signatures, and the second, compared with the stored form of the first,
\* returns the first's task.
C10_KeyOrderIrrelevant ==
    [][\A i \in DOMAIN tasks : \A f \in {"customer_hint", "location", "flight"} :
          (CreateCall /\ KeyOrderVariant(created_from[i], last'.body, f))
          => /\ new_signature(TaskCreate(created_from[i]))
                  = new_signature(TaskCreate(last'.body))
             /\ last'.outcome = "ok"
             /\ last'.ret = i
             /\ tasks' = tasks
             /\ events' = events]_vars

\* Task 1 was created with {a, b: {x, y}} and a request with the nested keys
\* exchanged, {a, b: {y, x}}, has just returned it.
C10_Witness ==
    /\ last.op = "create_task"
    /\ Len(tasks) >= 1
    /\ last.ret = 1
    /\ created_from[1].customer_hint = HintAB
    /\ last.body.customer_hint = HintABInner
    /\ tasks[1].customer_hint = HintAB

\* Session t ends, in this step, a set_status attempt for which it holds
\* the row lock.
Ends(t) == sessions[t].pc = "locked" /\ sessions'[t].pc = "closed"

\* Session t has ended a set_status attempt on stored task id for target.
Ended(t, id, target) ==
    /\ sessions[t].pc = "closed"
    /\ sessions[t].op = "set_status"
    /\ sessions[t].outcome # "none"
    /\ sessions[t].task_id = id
    /\ sessions[t].new_status = target

\* Exactly n events were appended in this step, all for task id, and no
\* stored event changed.
AppendedFor(id, n) ==
    /\ Len(events') = Len(events) + n
    /\ SubSeq(events', 1, Len(events)) = events
    /\ \A k \in (Len(events) + 1)..Len(events') : events'[k].task_id = id

\* C11: concurrent set_status attempts on one task are serialized by the
\* row lock.  At most one session holds the lock of a task; the attempt
\* that ends has evaluated the status the last committed attempt left; it
\* is a no-op exactly when that status is its target, and otherwise either
\* changes the status to its target together with exactly one event or
\* changes nothing; so an attempt that ends while the status another
\* attempt with the same target wrote still stands is a no-op, and every
\* task has exactly one event per status it has held.
C11_SerializedByRowLock ==
    [][/\ \A t, u \in Sessions :
            (/\ sessions[t].pc = "locked" /\ sessions[u].pc = "locked"
             /\ sessions[t].task_id = sessions[u].task_id) => t = u
       /\ \A i \in DOMAIN tasks' :
            Len(EventsOf(events', i)) = Len(status_log'[i])
       /\ \A t \in Sessions :
            Ends(t) =>
              LET id == sessions[t].task_id
                  target == sessions[t].new_status
                  committed == tasks[id].status
              IN  /\ sessions[t].status = committed
                  /\ (target = committed) <=>
                        (/\ sessions'[t].outcome = "ok"
                         /\ sessions'[t].event_id = 0)
                  /\ \/ /\ tasks' = tasks /\ events' = events
                        /\ sessions'[t].event_id = 0
                     \/ /\ tasks'[id].status = target
                        /\ target # committed
                        /\ sessions'[t].outcome = "ok"
                        /\ sessions'[t].event_id = Len(events')
                        /\ AppendedFor(id, 1)
                        /\ \A o \in (DOMAIN tasks) \ {id} :
                              tasks'[o] = tasks[o]
                  /\ \A u \in Sessions \ {t} :
                        (/\ Ended(u, id, target)
                         /\ sessions[u].event_id # 0
                         /\ committed = target)
                        => /\ sessions'[t].outcome = "ok"
                           /\ tasks' = tasks /\ events' = events]_vars

\* Two attempts with the same target ran concurrently: the one whose
\* transaction began later applied the change, and the one that began
\* first, having waited for the lock, was a no-op.
C11_Witness ==
    \E t, u \in Sessions, id \in DOMAIN tasks :
        /\ t # u
        /\ Ended(t, id, sessions[u].new_status)
        /\ Ended(u, id, sessions[t].new_status)
        /\ sessions[t].now < sessions[u].now
        /\ sessions[u].event_id # 0
        /\ sessions[t].outcome = "ok"
        /\ sessions[t].event_id = 0
        /\ tasks[id].status = sessions[u].new_status
        /\ Len(EventsOf(events, id)) = 2

\* Session s commits, in this step, the insert of a create_task request.
Inserts(s) == sessions[s].pc = "insert" /\ sessions'[s].pc = "closed"

\* Two stored rows equal in every column the duplicate check reads.
SameWork(t1, t2) ==
    /\ t1.order_item_id = t2.order_item_id
    /\ t1.service_type = t2.service_type
    /\ t1.provider_id = t2.provider_id
    /\ SameJson(t1.location, t2.location)
    /\ SameJson(t1.flight, t2.flight)
    /\ SameJson(t1.customer_hint, t2.customer_hint)
    /\ t1.checklist = t2.checklist
    /\ t1.sla_due_at = t2.sla_due_at

\* C12: create_task reads its candidates without a lock and then inserts.
\* A request whose candidate read found no duplicate inserts its task and
\* its CREATED event whatever has been committed since the read; when
\* another request with the identical body committed in between, the store
\* then holds two distinct tasks with the same signature, each with its own
\* CREATED event.
C12_UnlockedCreateRace ==
    [][\A s \in Sessions :
          Inserts(s) =>
            LET id == Len(tasks) + 1 IN
            /\ sessions'[s].outcome = "ok"
            /\ sessions'[s].ret = id
            /\ DOMAIN tasks' = 1..id
            /\ \A i \in DOMAIN tasks : tasks'[i] = tasks[i]
            /\ tasks'[id].status = "new"
            /\ created_from'[id] = sessions[s].body
            /\ AppendedOne([id |-> Len(events) + 1, task_id |-> id,
                            code |-> "CREATED", payload |-> JNull,
                            ts |-> sessions[s].now])
            /\ \A i \in DOMAIN tasks :
                  created_from[i] = sessions[s].body
                  => /\ SameWork(tasks'[i], tasks'[id])
                     /\ Len(CreatedEventsOf(events', i)) = 1
                     /\ Len(CreatedEventsOf(events', id)) = 1]_vars

\* Both sessions created a task from the same body: two rows with the same
\* signature and two CREATED events are stored.
C12_Witness ==
    \E s, t \in Sessions :
        /\ s # t
        /\ sessions[s].op = "create_task" /\ sessions[t].op = "create_task"
        /\ sessions[s].body = sessions[t].body
        /\ sessions[s].outcome = "ok" /\ sessions[t].outcome = "ok"
        /\ sessions[s].ret # sessions[t].ret
        /\ sessions[s].event_id # 0 /\ sessions[t].event_id # 0
        /\ sessions[s].ret \in DOMAIN tasks /\ sessions[t].ret \in DOMAIN tasks
        /\ SameWork(tasks[sessions[s].ret], tasks[sessions[t].ret])
        /\ existing_signature(tasks[sessions[s].ret])
             = existing_signature(tasks[sessions[t].ret])
        /\ Len(CreatedEventsOf(events, sessions[s].ret)) = 1
        /\ Len(CreatedEventsOf(events, sessions[t].ret)) = 1

\* C13: set_status on a task id that no stored task has ends in the
\* not-found error (NoResultFound), which is neither success nor
\* InvalidStatusTransition and which the handler does not turn into the 409
\* of an invalid transition; no task is created or changed and no event is
\* appended.
C13_MissingTaskNotFound ==
    [][(last'.op = "set_status" /\ last'.task_id \notin DOMAIN tasks)
       => /\ last'.outcome = "NoResultFound"
          /\ last'.outcome \notin {"ok", "InvalidStatusTransition"}
          /\ reply'.result = "raise"
          /\ reply'.exception = "NoResultFound"
          /\ reply'.status_code # 409
          /\ reply'.cause = NoExc
          /\ tasks' = tasks
          /\ events' = events
          /\ status_log' = status_log]_vars

\* A request for a missing id was served while tasks were stored.
C13_Witness ==
    /\ last.op = "set_status"
    /\ last.task_id \notin DOMAIN tasks
    /\ last.outcome = "NoResultFound"
    /\ reply.exception = "NoResultFound"
    /\ Len(tasks) = 2
    /\ Len(events) > 2

\* C14: whenever set_status raises InvalidStatusTransition, _change_status
\* ends by raising an HTTPException with status code 409 whose cause is
\* that InvalidStatusTransition (same current and new status); it does not
\* return a task and uses no other status code.
C14_InvalidTransitionIsConflict ==
    last.outcome = "InvalidStatusTransition"
    => /\ reply.result = "raise"
       /\ reply.exception = "HTTPException"
       /\ reply.status_code = 409
       /\ reply.cause = [name |-> "InvalidStatusTransition",
                         current |-> last.exc_current,
                         new |-> last.exc_new]
       /\ reply.ret = 0

\* A start request on a task still in new was answered with the 409.
C14_Witness ==
    /\ last.op = "set_status"
    /\ last.outcome = "InvalidStatusTransition"
    /\ last.exc_current = "new"
    /\ last.new_status = "in_progress"
    /\ reply.status_code = 409
    /\ reply.cause.name = "InvalidStatusTransition"
    /\ reply.cause.current = "new"
    /\ reply.cause.new = "in_progress"

\* C15: list_tasks with an empty or absent status filter returns every
\* stored task; with a non-empty filter it returns exactly the tasks whose
\* status is in the filter, each once; the rows come most recently created
\* first; tasks and events are left unchanged.
C15_ListFiltersAndOrders ==
    [][last'.op = "list_tasks"
       => LET rows == reply'.rows
              filter == {reply'.statuses[k] : k \in DOMAIN reply'.statuses}
          IN  /\ tasks' = tasks
              /\ events' = events
              /\ clock' = clock
              /\ \A k, l \in DOMAIN rows : rows[k] = rows[l] => k = l
              /\ {rows[k] : k \in DOMAIN rows}
                   = IF filter = {} THEN DOMAIN tasks
                     ELSE {i \in DOMAIN tasks : tasks[i].status \in filter}
              /\ \A k, l \in DOMAIN rows :
                    k < l => /\ tasks[rows[k]].created_at
                                  >= tasks[rows[l]].created_at
                             /\ rows[k] > rows[l]]_vars

\* A listing filtered by two statuses returned a task in each, the later
\* created one first.
C15_Witness ==
    /\ last.op = "list_tasks"
    /\ Len(reply.statuses) = 2
    /\ Len(reply.rows) = 2
    /\ tasks[reply.rows[1]].created_at > tasks[reply.rows[2]].created_at
    /\ tasks[reply.rows[1]].status # tasks[reply.rows[2]].status

\* Two request or column values denote the same: both absent, or datetimes
\* of one instant, or equal.
SameValue(a, b) ==
    IF a.t = "datetime" /\ b.t = "datetime"
    THEN InstantOf[a.s] = InstantOf[b.s]
    ELSE a = b

\* The events this step appended to flight_events.
NewFlightEvents ==
    SubSeq(flight_events', Len(flight_events) + 1, Len(flight_events'))

\* This step appended exactly one flight event, of this type, for the
\* flight of the request.
OneFlightEvent(type) ==
    /\ Len(NewFlightEvents) = 1
    /\ NewFlightEvents[1].event_type = type
    /\ NewFlightEvents[1].flight_id = upserted'.flight_id
    /\ upserted'.event_type = type

\* C16: the first upsert of a flight id appends flight.created; upserting
\* an existing flight whose stored status is not CANCELLED with status
\* CANCELLED appends exactly one flight.cancelled event carrying the
\* previous status and the status_reason, and stores status CANCELLED; an
\* upsert that changes an already-CANCELLED flight, or that changes a
\* flight's status to one other than CANCELLED, appends exactly one
\* flight.updated event.  No stored event is changed.
C16_UpsertEventTypes ==
    [][flight_clock' # flight_clock
       => LET u == upserted'
              before == {i \in DOMAIN flights :
                            flights[i].flight_id = u.flight_id}
          IN  /\ SubSeq(flight_events', 1, Len(flight_events)) = flight_events
              /\ before = {} => OneFlightEvent("flight.created")
              /\ \A i \in before :
                    LET old == flights[i]
                        differs ==
                            \/ old.iata # u.payload.iata
                            \/ ~SameValue(old.std, u.payload.std)
                            \/ ~SameValue(old.sta, u.payload.sta)
                            \/ old.status # u.payload.status
                            \/ old.status_reason # u.payload.status_reason
                    IN  /\ (old.status # "CANCELLED"
                            /\ u.payload.status = "CANCELLED")
                           => /\ OneFlightEvent("flight.cancelled")
                              /\ DictGet(NewFlightEvents[1].payload.items,
                                         "previous_status", JNull)
                                   = JStr(old.status)
                              /\ DictGet(NewFlightEvents[1].payload.items,
                                         "status_reason", JStr("?"))
                                   = u.payload.status_reason
                              /\ flights'[i].status = "CANCELLED"
                        /\ (old.status = "CANCELLED" /\ differs)
                           => OneFlightEvent("flight.updated")
                        /\ (old.status # u.payload.status
                            /\ u.payload.status # "CANCELLED")
                           => /\ OneFlightEvent("flight.updated")
                              /\ flights'[i].status = u.payload.status]_vars

\* A scheduled flight was created and then cancelled for WEATHER: two
\* events, the second flight.cancelled with the previous status.
C16_Witness ==
    /\ Len(flights) = 1
    /\ flights[1].status = "CANCELLED"
    /\ Len(flight_events) = 2
    /\ flight_events[1].event_type = "flight.created"
    /\ flight_events[2].event_type = "flight.cancelled"
    /\ DictGet(flight_events[2].payload.items, "previous_status", JNull)
         = JStr("SCHEDULED")
    /\ DictGet(flight_events[2].payload.items, "status_reason", JNull)
         = JStr("WEATHER")

\* The entries of the log whose identifier, spaces around it aside, is x.
LookupsOf(x) ==
    {k \in DOMAIN lookup_log : strip(lookup_log[k].request.ticket_or_pnr) = x}

\* The identifiers under which some record is kept.
KnownIdentifiers ==
    {MOCK_RECORDS[r].ticket_number : r \in DOMAIN MOCK_RECORDS}
    \cup {MOCK_RECORDS[r].pnr : r \in DOMAIN MOCK_RECORDS}

\* C17: booking lookup is deterministic and read-only.  The repository
\* stays as constructed; requests with the same identifier got equal
\* responses; a booking looked up by its ticket number and by its PNR got
\* the same response, a 200 built from the record; and an identifier under
\* which no record is kept got 404 'Booking not found'.
C17_LookupDeterministic ==
    /\ booking_index = MOCK_REPOSITORY
    /\ \A k, l \in DOMAIN lookup_log :
          lookup_log[k].request = lookup_log[l].request
          => lookup_log[k].response = lookup_log[l].response
    /\ \A r \in DOMAIN MOCK_RECORDS :
          \A k \in LookupsOf(MOCK_RECORDS[r].ticket_number),
             l \in LookupsOf(MOCK_RECORDS[r].pnr) :
              /\ lookup_log[k].response = lookup_log[l].response
              /\ lookup_log[k].response.status_code = 200
              /\ lookup_log[k].response.ticket_hash
                   = <<"sha256:">> \o MOCK_RECORDS[r].ticket_number
              /\ lookup_log[k].response.service_suggestions
                   = MOCK_RECORDS[r].service_suggestions
    /\ \A k \in DOMAIN lookup_log :
          strip(lookup_log[k].request.ticket_or_pnr) \notin KnownIdentifiers
          => /\ lookup_log[k].response.status_code = 404
             /\ lookup_log[k].response.detail = "Booking not found"
             /\ lookup_log[k].response.passenger_id = <<>>

\* A booking was looked up by ticket number and by PNR with one response,
\* and an unknown identifier was answered 404.
C17_Witness ==
    /\ Len(lookup_log) = 3
    /\ lookup_log[1].request.ticket_or_pnr = Ticket1
    /\ lookup_log[2].request.ticket_or_pnr = Pnr1
    /\ lookup_log[1].response = lookup_log[2].response
    /\ lookup_log[1].response.status_code = 200
    /\ lookup_log[1].response.ticket_last4 = <<"7", "8", "9", "0">>
    /\ lookup_log[3].response.status_code = 404
    /\ lookup_log[3].response.detail = "Booking not found"

\* The stored tasks whose status this step changed.
StatusChanged == {i \in DOMAIN tasks : tasks'[i].status # tasks[i].status}

\* C18: in every committed state each task has as many events as 1 (its
\* CREATED event, the first) plus the status changes applied to it, and
\* every event references a stored task.  A step appends one event per
\* task it inserts and per status it changes, and none otherwise: a no-op,
\* a rejected or a failed call adds no event.
C18_OneEventPerChange ==
    [][/\ \A i \in DOMAIN tasks' :
            /\ Len(EventsOf(events', i)) = 1 + (Len(status_log'[i]) - 1)
            /\ Len(CreatedEventsOf(events', i)) = 1
            /\ EventsOf(events', i)[1].code = "CREATED"
       /\ \A k \in DOMAIN events' : events'[k].task_id \in DOMAIN tasks'
       /\ Len(events') - Len(events)
            = (Len(tasks') - Len(tasks)) + Cardinality(StatusChanged)
       /\ SubSeq(events', 1, Len(events)) = events
       /\ last'.outcome # "ok" => events' = events /\ tasks' = tasks
       /\ (last'.op = "set_status" /\ last'.outcome = "ok"
           /\ last'.new_status = tasks[last'.task_id].status)
          => events' = events /\ tasks' = tasks]_vars

\* A task went through three status changes and has four events; the call
\* that ran last on it was rejected and added none.
C18_Witness ==
    \E i \in DOMAIN tasks :
        /\ Len(status_log[i]) = 4
        /\ Len(EventsOf(events, i)) = 4
        /\ last.op = "set_status"
        /\ last.task_id = i
        /\ last.outcome = "InvalidStatusTransition"

\* C19: after any sequence and interleaving of create and set_status
\* requests, every task's status history starts at new, every consecutive
\* pair of statuses in it is an edge of the allow-list, and the task's
\* stored status is the last of its history.
C19_HistoryFollowsAllowList ==
    /\ DOMAIN status_log = DOMAIN tasks
    /\ \A i \in DOMAIN tasks :
          /\ status_log[i][1] = "new"
          /\ status_log[i][Len(status_log[i])] = tasks[i].status
          /\ \A k \in 1..(Len(status_log[i]) - 1) :
                status_log[i][k + 1] \in AllowList[status_log[i][k]]

\* Two concurrent sessions each moved the same task one step: the session
\* whose transaction began first applied the second step.
C19_Witness ==
    \E t, u \in Sessions, i \in DOMAIN tasks :
        /\ t # u
        /\ status_log[i] = <<"new", "assigned", "in_progress">>
        /\ sessions[t].op = "set_status" /\ sessions[u].op = "set_status"
        /\ sessions[t].task_id = i /\ sessions[u].task_id = i
        /\ sessions[t].event_id # 0 /\ sessions[u].event_id # 0
        /\ sessions[t].now < sessions[u].now
        /\ sessions[u].event_id < sessions[t].event_id

\* C20: for every task, ordering its events by timestamp ascending yields
\* the order in which they were committed, CREATED first, also when
\* transitions on the task are attempted concurrently: of two events of a
\* task, the one committed earlier has the smaller timestamp.
C20_TimestampOrderIsCommitOrder ==
    \A i \in DOMAIN tasks :
        LET evs == EventsOf(events, i) IN
        /\ evs[1].code = "CREATED"
        /\ \A k, l \in DOMAIN evs : k < l => evs[k].ts < evs[l].ts

\* The task ids stored in a table of tasks.
TaskIdsOf(ts) == {ts[i].id : i \in DOMAIN ts}

\* seq1 is seq2, or seq2 with rows added at its end.
Extends(seq1, seq2) ==
    /\ Len(seq1) >= Len(seq2)
    /\ SubSeq(seq1, 1, Len(seq2)) = seq2

\* C21: the store is append-only: no operation (create_task, list_tasks,
\* set_status) removes a task or an event, or changes the task_id, code or
\* payload of a stored event; the set of task ids and the event sequence of
\* each task only grow.
C21_AppendOnly ==
    [][/\ Len(tasks') >= Len(tasks)
       /\ TaskIdsOf(tasks) \subseteq TaskIdsOf(tasks')
       /\ Len(events') >= Len(events)
       /\ \A k \in DOMAIN events :
            /\ events'[k].id = events[k].id
            /\ events'[k].task_id = events[k].task_id
            /\ events'[k].code = events[k].code
            /\ events'[k].payload = events[k].payload
       /\ \A id \in TaskIdsOf(tasks) :
            Extends(EventsOf(events', id), EventsOf(events, id))]_vars

\* Two tasks are stored, one of them with three events, and the call that
\* ran last was a listing, a rejected transition or a duplicate create.
C21_Witness ==
    /\ Len(tasks) = 2
    /\ \E id \in TaskIdsOf(tasks) : Len(EventsOf(events, id)) = 3
    /\ last.op \in {"list_tasks", "set_status", "create_task"}
    /\ last.outcome \in {"ok", "InvalidStatusTransition"}

\* Session s is in a set_status attempt on a stored task.
Attempting(s) ==
    /\ sessions[s].op = "set_status"
    /\ sessions[s].pc # "closed"
    /\ sessions[s].task_id \in DOMAIN tasks

\* The set_status call of session s has ended in one of the three ways:
\* it has returned after its commit, returned early, or raised.
EndedAttempt(s) ==
    /\ sessions[s].op = "set_status"
    /\ \/ sessions[s].pc \in {"committed", "returned"}
          /\ sessions[s].outcome = "ok"
       \/ sessions[s].pc = "raised"
          /\ sessions[s].outcome = "InvalidStatusTransition"

\* Session s waits for the row lock of its task.
Waiting(s) ==
    /\ sessions[s].pc = "select"
    /\ sessions[s].task_id \in DOMAIN tasks
    /\ ~row_lock_free(sessions[s].task_id)

\* C22: under fair scheduling every set_status attempt on an existing task
\* eventually ends (applied, no-op or InvalidStatusTransition); the row
\* lock it took is eventually released, whichever way it ended; an attempt
\* waiting for the lock eventually gets it; no status change stays in
\* flight forever (no deadlock).
C22_AttemptsEndAndRelease ==
    \A s \in Sessions :
        /\ Attempting(s) ~> EndedAttempt(s)
        /\ (sessions[s].pc \in LockHeld) ~> (sessions[s].pc \notin LockHeld)
        /\ Waiting(s) ~> (sessions[s].pc = "locked")
        /\ (sessions[s].op = "set_status" /\ sessions[s].pc # "closed")
              ~> (sessions[s].pc = "closed")

\* One attempt waits for the row that another, which has raised
\* InvalidStatusTransition and is not yet closed, still holds.
C22_Witness ==
    \E s, t \in Sessions :
        /\ Waiting(s)
        /\ sessions[t].pc = "raised"
        /\ sessions[t].task_id = sessions[s].task_id

\* Session s is in a set_status call and takes this step.
SetStatusStep(s) ==
    /\ sessions[s].op = "set_status"
    /\ sessions[s].pc # "closed"
    /\ sessions'[s] # sessions[s]

\* No session but s holds the row lock of task id.
NotHeldByOthers(s, id) ==
    \A t \in Sessions \ {s} :
        ~(sessions[t].pc \in LockHeld /\ sessions[t].task_id = id)

\* C23: a set_status call on task A, whatever its outcome, leaves the
\* fields and the events of every other task unchanged, and it does not
\* wait for a lock held for a different task: its SELECT FOR UPDATE can go
\* on as soon as no other session holds the lock of A itself.  A create
\* that inserts a task leaves the stored tasks and events unchanged.
C23_OtherTasksUntouched ==
    [][/\ \A s \in Sessions :
            SetStatusStep(s)
            => \A o \in (DOMAIN tasks) \ {sessions[s].task_id} :
                  /\ tasks'[o] = tasks[o]
                  /\ EventsOf(events', o) = EventsOf(events, o)
       /\ \A s \in Sessions :
            (/\ sessions[s].pc = "select"
             /\ sessions[s].task_id \in DOMAIN tasks
             /\ NotHeldByOthers(s, sessions[s].task_id))
            => ENABLED (SelectForUpdate /\ sessions'[s].pc = "locked")
       /\ Len(tasks') > Len(tasks)
            => /\ \A o \in DOMAIN tasks : tasks'[o] = tasks[o]
               /\ SubSeq(events', 1, Len(events)) = events
               /\ \A k \in (Len(events) + 1)..Len(events') :
                     events'[k].task_id \notin DOMAIN tasks]_vars

\* Two sessions hold the row locks of two different tasks at once: one has
\* raised InvalidStatusTransition and is not yet closed, the other got its
\* lock while the first held its own; and the first task has changed status
\* while the second has only its CREATED event.
C23_Witness ==
    \E s, t \in Sessions :
        /\ sessions[t].pc = "raised"
        /\ sessions[s].pc = "locked"
        /\ sessions[t].now < sessions[s].now
        /\ sessions[s].task_id # sessions[t].task_id
        /\ sessions[s].task_id \in DOMAIN tasks
        /\ sessions[t].task_id \in DOMAIN tasks
        /\ Len(EventsOf(events, sessions[s].task_id)) = 1

\* The statuses that n accepted transitions can lead to from status s.
RECURSIVE After(_, _)
After(s, n) ==
    IF n = 0 THEN {s}
    ELSE UNION {allowed_next(t) : t \in After(s, n - 1)}

\* C24: the allow-list is acyclic: no status leads back to itself, and no
\* chain of accepted transitions is longer than 3.  So every task has
\* changed status at most 3 times, has at most 4 events (CREATED and one
\* per change), and has held no status twice.
C24_ForwardOnly ==
    /\ \A s \in TaskStatus :
          /\ After(s, 4) = {}
          /\ \A n \in 1..3 : s \notin After(s, n)
    /\ \A i \in DOMAIN tasks :
          /\ Len(status_log[i]) <= 4
          /\ Len(EventsOf(events, i)) = Len(status_log[i])
          /\ Len(EventsOf(events, i)) <= 4
          /\ Len(CreatedEventsOf(events, i)) = 1
          /\ \A k, l \in DOMAIN status_log[i] :
                status_log[i][k] = status_log[i][l] => k = l

\* A task went through new, assigned, in_progress and done, has its four
\* events, and a further attempt to move it was rejected.
C24_Witness ==
    \E i \in DOMAIN tasks :
        /\ status_log[i] = <<"new", "assigned", "in_progress", "done">>
        /\ Len(EventsOf(events, i)) = 4
        /\ last.op = "set_status"
        /\ last.task_id = i
        /\ last.outcome = "InvalidStatusTransition"
        /\ last.exc_current = "done"

\* C25: duplicate detection in create_task does not look at the stored
\* status: a create request with the body that created a task which has
\* since left new (for assigned, in_progress, or a terminal status) returns
\* that task, and no row is inserted, no row changed and no event appended;
\* so no two tasks are ever created from the same body.
C25_DuplicateWhateverStatus ==
    [][/\ \A i \in DOMAIN tasks :
            (/\ CreateCall
             /\ last'.body = created_from[i]
             /\ tasks[i].status # "new")
            => /\ last'.outcome = "ok"
               /\ last'.ret = i
               /\ tasks' = tasks
               /\ events' = events
       /\ \A i, j \in DOMAIN tasks' :
            created_from'[i] = created_from'[j] => i = j]_vars

\* The body that created a task is submitted again after the task was
\* done, and the done task is returned as it is.
C25_Witness ==
    /\ last.op = "create_task"
    /\ last.ret \in DOMAIN tasks
    /\ last.body = created_from[last.ret]
    /\ tasks[last.ret].status = "done"
    /\ tasks[last.ret].updated_at > tasks[last.ret].created_at
    /\ Len(EventsOf(events, last.ret)) = 4

\* This step is a request of POST /tasks/{id}/scan for stored task id.
ScanRequest(id) ==
    /\ reply'.result # "none"
    /\ last'.op = "set_status"
    /\ last'.event = "SCANNED"
    /\ last'.task_id = id

\* The events of task id that record its start: STARTED or SCANNED.
StartEventsOf(evs, id) ==
    SelectSeq(evs, LAMBDA e : e.task_id = id /\ e.code \in {"STARTED", "SCANNED"})

\* C26: a scan request appends a SCANNED event, with the scanned payload,
\* only when it moves the task from assigned to in_progress; on a task
\* already in_progress it succeeds, appends no event and stores the
\* payload nowhere; on a new or a terminal task it is answered with 409 and
\* changes nothing.  Every task has at most one event among STARTED and
\* SCANNED.
C26_ScanRecordsOnlyOnStart ==
    [][/\ \A id \in DOMAIN tasks :
            ScanRequest(id) =>
              /\ tasks[id].status = "assigned"
                    => /\ reply'.status_code = 200
                       /\ tasks'[id].status = "in_progress"
                       /\ AppendedOne([id |-> Len(events) + 1, task_id |-> id,
                                       code |-> "SCANNED",
                                       payload |-> ScanPayload,
                                       ts |-> clock'])
              /\ tasks[id].status = "in_progress"
                    => /\ reply'.result = "return"
                       /\ reply'.status_code = 200
                       /\ reply'.ret = id
                       /\ tasks' = tasks
                       /\ events' = events
              /\ tasks[id].status \in {"new"} \cup TerminalStatuses
                    => /\ reply'.result = "raise"
                       /\ reply'.status_code = 409
                       /\ tasks' = tasks
                       /\ events' = events
       /\ \A id \in DOMAIN tasks' : Len(StartEventsOf(events', id)) <= 1]_vars

\* A scan request on a task that start_task had moved to in_progress was
\* answered with 200, and the task has its STARTED event and no SCANNED one.
C26_Witness ==
    /\ reply.result = "return"
    /\ reply.status_code = 200
    /\ last.op = "set_status"
    /\ last.event = "SCANNED"
    /\ last.payload = ScanPayload
    /\ last.task_id \in DOMAIN tasks
    /\ tasks[last.task_id].status = "in_progress"
    /\ \E k \in DOMAIN events :
          events[k].task_id = last.task_id /\ events[k].code = "STARTED"
    /\ \A k \in DOMAIN events : events[k].code # "SCANNED"

\* C27: through the endpoints create, accept, start and scan a task is only
\* ever new, assigned or in_progress (never done, failed or cancelled), and
\* the only event codes stored are CREATED, ACCEPTED, STARTED and SCANNED.
C27_ApiReachesNoTerminalStatus ==
    /\ \A i \in DOMAIN tasks :
          /\ tasks[i].status \in {"new", "assigned", "in_progress"}
          /\ Range(status_log[i]) \subseteq {"new", "assigned", "in_progress"}
    /\ \A k \in DOMAIN events :
          events[k].code \in {"CREATED", "ACCEPTED", "STARTED", "SCANNED"}

\* Two tasks are in_progress, one started and one scanned, so that all four
\* event codes are stored, and the request served last was rejected.
C27_Witness ==
    /\ Len(tasks) = 2
    /\ \A i \in DOMAIN tasks : tasks[i].status = "in_progress"
    /\ {events[k].code : k \in DOMAIN events}
         = {"CREATED", "ACCEPTED", "STARTED", "SCANNED"}
    /\ reply.status_code = 409

\* The request of this step gives every tracked field the value the stored
\* flight has.
SameTracked(old, payload) ==
    /\ old.iata = payload.iata
    /\ SameValue(old.std, payload.std)
    /\ SameValue(old.sta, payload.sta)
    /\ old.status = payload.status
    /\ old.status_reason = payload.status_reason

NoChecklist == {JAbsent, JNull, JArr(<<>>)}

\* C29: absent, null and the empty list are one checklist: create requests
\* that differ only in which of the three they give have equal signatures,
\* and the later one returns the task of the earlier one with nothing
\* inserted or appended; a task created from any of them is stored with
\* the empty list.
C29_NoChecklistIsEmptyList ==
    [][/\ \A i \in DOMAIN tasks :
            (/\ CreateCall
             /\ SameExcept(created_from[i], last'.body, "checklist")
             /\ created_from[i].checklist \in NoChecklist
             /\ last'.body.checklist \in NoChecklist)
            => /\ new_signature(TaskCreate(created_from[i]))
                    = new_signature(TaskCreate(last'.body))
               /\ existing_signature(tasks[i])
                    = new_signature(TaskCreate(last'.body))
               /\ last'.outcome = "ok"
               /\ last'.ret = i
               /\ tasks' = tasks
               /\ events' = events
       /\ \A i \in DOMAIN tasks' :
            created_from'[i].checklist \in NoChecklist
            => tasks'[i].checklist = JArr(<<>>)]_vars

\* Task 1 was created by a request without the checklist field and stored
\* with the empty list; a request with checklist null has just returned it,
\* after a task with a checklist of its own was stored.
C29_Witness ==
    /\ last.op = "create_task"
    /\ Len(tasks) = 2
    /\ last.ret = 1
    /\ created_from[1].checklist = JAbsent
    /\ tasks[1].checklist = JArr(<<>>)
    /\ last.body.checklist = JNull
    /\ SameExcept(created_from[1], last.body, "checklist")
    /\ tasks[2].checklist # JArr(<<>>)

=============================================================================
